---- MODULE Spec2Model ----
(***************************************************************************)
(* Model of the PancakeSwap sniper of src/src/types/index.ts:              *)
(*   - the PairCreated handler and its single-flight gate                  *)
(*     (isSnipingActive / currentTargetToken),                             *)
(*   - executeSwap and the manual nonce counter (currentNonce),            *)
(*   - scheduleSellAfterBuy: entry path, 1-second interval ticks and       *)
(*     executeSell,                                                        *)
(*   - the 8-second nonce reconciliation timer,                            *)
(*   - submitRawTx, the multi-RPC broadcast (specification SpecBroadcast). *)
(* JavaScript runs one callback at a time: every action below is the code  *)
(* that runs between two suspension points (await / timer). A read of the  *)
(* chain returns the chain's state at the moment its reply is handled.     *)
(***************************************************************************)
EXTENDS Integers, Sequences, FiniteSets, TLC

\* ---------------------------------------------------------------- bounds
\* Number of PairCreated events delivered by the subscription.
NumEvents == 2
\* Interval callbacks (of all positions together) that may be awaiting I/O
\* at once.
MaxInFlight == 2
\* Entries of rpcProviders (BSC_RPC_ENDPOINTS is configuration).
NumEndpoints == 3
\* submitRawTx's timeoutMs, in model time units.
TimeoutUnits == 2

Events == 1..NumEvents
Endpoints == 1..NumEndpoints
\* Response times an endpoint may take; the last one is past the timeout.
Latencies == 1..(TimeoutUnits + 1)

\* currentTargetToken: string | null
Null == <<>>
Token(h) == <<h>>

VARIABLES
  \* ---- module-level state of the bot
  isSnipingActive,     \* line 71
  currentTargetToken,  \* line 72
  currentNonce,        \* line 416
  minLiquidityOn,      \* MIN_LIQUIDITY_BNB > 0 (line 107), fixed at start-up
  alive,               \* FALSE once an unhandled rejection has ended the process
  \* ---- the chain, as seen through provider.getTransactionCount(.., 'pending')
  chainPending,
  \* ---- one PairCreated handler / position per event
  pc,                  \* where the handler or its position lifecycle stands
  initialLiquidityBNB, \* TRUE iff initialLiquidityBNB > 0 (line 547..559)
  sold,                \* line 569
  interval,            \* the setInterval of line 627 is armed
  ticks,               \* per stage, the interval callbacks awaiting there
  \* ---- history of what was done, per position
  buyNonce,            \* <<n>> once executeSwap has read its nonce
  buyOutcome,          \* how the build / sign / broadcast of the buy ended
  sellNonce,           \* nonces read by executeSell, in order
  approveSent,         \* number of approve transactions sent
  releases,            \* number of times the position cleared the gate
  sellBroadcasts,      \* number of submitRawTx calls made for the sell
  threw,               \* steps of the monitor continuation that threw
  sellTrigger,         \* <<>> or the tick that entered executeSell: the reason
                       \* given, and whether the pool was below the minimum
  \* ---- submitRawTx (SpecBroadcast)
  bPhase, bPlan, bNow, bResult, bReturn,
  \* ---- the functions without side effects (SpecPure)
  fnCall,              \* <<>> or the last call: the function and its arguments
  fnResult,            \* what that call returned
  \* ---- AutoSellManager (SpecAutoSell)
  pendingSales,        \* the entries of the Map, one per token address
  monitoringInterval,  \* TRUE iff the 5-second timer is set (not null)
  callbacks,           \* the timer callbacks that are awaiting
  sellTokenCalls,      \* per sale, the calls of tradeExecutor.sellToken made
  created,             \* number of sales scheduled so far
  expired,             \* sales whose Date.now() - scheduledAt has reached timeMs
  \* ---- SniperBot (SpecSniper)
  isRunning,           \* sniperBot.ts line 12
  startPc,             \* where the last call of start() stands or how it ended
  monitoring,          \* the monitors whose listeners are attached
  tradedTokens,        \* sniperBot.ts line 13
  buyTokenCalls,       \* per token address, the calls of tradeExecutor.buyToken
  awaiting,            \* per token address, the handlers suspended at an await
  delivered            \* number of events delivered so far

gateVars  == <<isSnipingActive, currentTargetToken>>
nonceVars == <<currentNonce, chainPending>>
posVars   == <<pc, initialLiquidityBNB, sold, interval, ticks>>
histVars  == <<buyNonce, buyOutcome, sellNonce, approveSent, releases, sellBroadcasts, threw>>
botVars   == <<gateVars, nonceVars, posVars, histVars, sellTrigger, minLiquidityOn, alive>>
bVars     == <<bPhase, bPlan, bNow, bResult, bReturn>>
fVars     == <<fnCall, fnResult>>
aVars     == <<pendingSales, monitoringInterval, callbacks, sellTokenCalls, created, expired>>
sVars     == <<isRunning, startPc, monitoring, tradedTokens, buyTokenCalls, awaiting, delivered>>
svcVars   == <<aVars, sVars>>
vars      == <<botVars, bVars, fVars, svcVars>>

\* Stages at which an interval callback (or the executeSell it called) awaits.
Stages == {"liq", "price", "approveL", "approveP", "resync", "submit", "submitted"}

NoTicks == [s \in Stages |-> 0]

InFlight(h) ==
  ticks[h]["liq"] + ticks[h]["price"] + ticks[h]["approveL"] + ticks[h]["approveP"]
    + ticks[h]["resync"] + ticks[h]["submit"] + ticks[h]["submitted"]

\* Callbacks in flight over the positions 1..n, and over all of them.
RECURSIVE SumInFlight(_)
SumInFlight(n) == IF n = 0 THEN 0 ELSE InFlight(n) + SumInFlight(n - 1)
TotalInFlight == SumInFlight(NumEvents)

\* ticks[h] with one callback moved from stage a to stage b
Move(h, a, b) ==
  IF a = b THEN ticks
  ELSE [ticks EXCEPT ![h] = [@ EXCEPT ![a] = @ - 1, ![b] = @ + 1]]

\* ticks[h] with the callback at stage a finished
Finish(h, a) == [ticks EXCEPT ![h] = [@ EXCEPT ![a] = @ - 1]]


\* ------------------------------------------------------------ start-up
\* Module-level initialisation (lines 71..73, 107) and the head of main()
\* (line 416: currentNonce is the chain's pending count).
InitBot ==
  /\ isSnipingActive = FALSE
  /\ currentTargetToken = Null
  /\ chainPending = 0
  /\ currentNonce = chainPending
  /\ minLiquidityOn \in BOOLEAN
  /\ alive = TRUE
  /\ pc = [h \in Events |-> "idle"]
  /\ initialLiquidityBNB = [h \in Events |-> FALSE]
  /\ sold = [h \in Events |-> FALSE]
  /\ interval = [h \in Events |-> FALSE]
  /\ ticks = [h \in Events |-> NoTicks]
  /\ buyNonce = [h \in Events |-> <<>>]
  /\ buyOutcome = [h \in Events |-> "none"]
  /\ sellNonce = [h \in Events |-> <<>>]
  /\ approveSent = [h \in Events |-> 0]
  /\ releases = [h \in Events |-> 0]
  /\ sellBroadcasts = [h \in Events |-> 0]
  /\ threw = [h \in Events |-> {}]
  /\ sellTrigger = [h \in Events |-> <<>>]

\* submitRawTx not called.
InitBroadcastIdle ==
  /\ bPhase = "idle"
  /\ bPlan = <<>>
  /\ bNow = 0
  /\ bResult = [e \in Endpoints |-> "pending"]
  /\ bReturn = <<>>

\* No function called yet.
InitPureIdle ==
  /\ fnCall = <<>>
  /\ fnResult = <<>>

\* ------------------------------------------------------------ the gate
\* The reads of isSnipingActive at lines 722 and 747.
GateBusy == isSnipingActive

\* The read of isSnipingActive at line 765, right before the lock.
BusyAtLock_Unchecked == FALSE
BusyAtLock == isSnipingActive

\* The value written to currentTargetToken by every release
\* (lines 515, 529, 540, 611, 619, 785, 793).
ReleasedTarget_Kept == currentTargetToken
ReleasedTarget == Null

\* isSnipingActive = false; currentTargetToken = null;
ReleaseGate(h) ==
  /\ isSnipingActive' = FALSE
  /\ currentTargetToken' = ReleasedTarget
  /\ releases' = [releases EXCEPT ![h] = @ + 1]

\* isSnipingActive = true; currentTargetToken = newToken; (lines 769, 770)
LockGate(h) ==
  /\ isSnipingActive' = TRUE
  /\ currentTargetToken' = Token(h)

KeepGate == UNCHANGED <<gateVars, releases>>

\* An async callback's promise rejects with nobody awaiting it: depending on
\* the runtime's unhandled-rejection mode the process goes on or is ended.
UnhandledRejection == \E goesOn \in BOOLEAN : alive' = goesOn

\* --------------------------------------------------- PairCreated handler
\* Lines 674..699: the event arrives; non-WBNB pairs are skipped at once,
\* otherwise the handler awaits pairContract.getReserves().
PairCreated(h) ==
  /\ alive
  /\ pc[h] = "idle"
  /\ \A g \in Events : g < h => pc[g] # "idle"
  /\ \E isWbnbPair \in BOOLEAN :
       pc' = [pc EXCEPT ![h] = IF isWbnbPair THEN "getReserves" ELSE "skip_filter"]
  /\ UNCHANGED <<gateVars, nonceVars, histVars, minLiquidityOn, alive, bVars, fVars, svcVars, sellTrigger>>
  /\ UNCHANGED <<initialLiquidityBNB, sold, interval, ticks>>

\* Lines 691..728: getReserves has answered (or thrown); zero reserves and
\* low liquidity are skipped; then the first gate check; then the handler
\* awaits getTokenInfo.
ReservesRead(h) ==
  /\ alive
  /\ pc[h] = "getReserves"
  /\ \E r \in {"throws", "zero", "low", "enough"} :
       pc' = [pc EXCEPT ![h] =
                IF r \in {"throws", "zero"} \/ (r = "low" /\ minLiquidityOn)
                  THEN "skip_filter"
                ELSE IF GateBusy THEN "skip_busy"
                ELSE "getTokenInfo"]
  /\ UNCHANGED <<gateVars, nonceVars, histVars, minLiquidityOn, alive, bVars, fVars, svcVars, sellTrigger>>
  /\ UNCHANGED <<initialLiquidityBNB, sold, interval, ticks>>

\* Lines 728..761: token info has answered; null info and deny-listed names
\* are skipped; then the second gate check; then the 80 ms wait.
TokenInfoRead(h) ==
  /\ alive
  /\ pc[h] = "getTokenInfo"
  /\ \E info \in {"null", "denied", "allowed"} :
       pc' = [pc EXCEPT ![h] =
                IF info # "allowed" THEN "skip_filter"
                ELSE IF GateBusy THEN "skip_busy"
                ELSE "sleep80"]
  /\ UNCHANGED <<gateVars, nonceVars, histVars, minLiquidityOn, alive, bVars, fVars, svcVars, sellTrigger>>
  /\ UNCHANGED <<initialLiquidityBNB, sold, interval, ticks>>

\* Lines 765..768: the gate is found busy at lock time; the handler returns.
RejectAtLock_Unlocks(h) ==
  /\ pc' = [pc EXCEPT ![h] = "skip_busy"]
  /\ isSnipingActive' = FALSE
  /\ currentTargetToken' = Null
  /\ UNCHANGED buyNonce
RejectAtLock(h) ==
  /\ pc' = [pc EXCEPT ![h] = "skip_busy"]
  /\ UNCHANGED <<gateVars, buyNonce>>

\* Lines 765..778 and 420..449: after the 80 ms wait the final gate check,
\* the lock, and the synchronous head of executeSwap, which reads
\* currentNonce once (line 446) and awaits populateTransaction. (sendBNB is
\* String(..) of line 91, never empty: the exit of line 776 is not taken.)
LockAndStartSwap(h) ==
  /\ alive
  /\ pc[h] = "sleep80"
  /\ IF BusyAtLock
       THEN RejectAtLock(h)
       ELSE /\ LockGate(h)
            /\ buyNonce' = [buyNonce EXCEPT ![h] = <<currentNonce>>]
            /\ pc' = [pc EXCEPT ![h] = "buildBuy"]
  /\ UNCHANGED <<nonceVars, minLiquidityOn, alive, bVars, fVars, svcVars, sellTrigger>>
  /\ UNCHANGED <<buyOutcome, sellNonce, approveSent, releases, sellBroadcasts, threw>>
  /\ UNCHANGED <<initialLiquidityBNB, sold, interval, ticks>>

\* ---------------------------------------------------------- executeSwap
\* What the endpoints do with a transaction of nonce n: a nonce below the
\* chain's next one is refused; the next one enters the pending set (and
\* counts in getTransactionCount 'pending'); a later one is queued behind
\* a gap and is never mined.
CanAccept(n) == n >= chainPending
ChainAfterAccept(n) == IF n = chainPending THEN chainPending + 1 ELSE chainPending
\* A transaction of nonce n can be mined once every nonce up to n is taken.
Mineable(n) == n < chainPending

\* The release of lines 792, 793 (buy failed).
ReleaseBuyFailed(h) == ReleaseGate(h)

\* error.message as the words it is made of.
\* Line 281: the only message submitRawTx ever throws.
ErrAllEndpointsFailed ==
  <<"All", "RPC", "endpoints", "failed", "to", "broadcast", "transaction">>
\* Messages thrown by populateTransaction / signTransaction (lines 449..463).
ErrBuild == <<"invalid", "transaction", "request">>
ErrBuildNonce == <<"invalid", "nonce">>

\* The error executeSwap's catch (line 489) receives for each way the buy
\* can fail. What an endpoint answered (line 254..257) is logged and turned
\* into success: false; it is not in the error submitRawTx throws.
CaughtMessage(out) ==
  CASE out \in {"rejected", "lostReply", "allFailed"} -> ErrAllEndpointsFailed
    [] out = "buildError" -> ErrBuild
    [] out = "buildNonceError" -> ErrBuildNonce

\* Line 492: error.message.includes('nonce') ||
\*           error.message.includes('already known')
NeedsResync(msg) ==
  \E i \in 1..Len(msg) : msg[i] \in {"nonce", "already known"}

\* Lines 449..467 and the catch of 489..497, then 780..796 of the handler:
\* populateTransaction / signTransaction / submitRawTx have finished.
\*   "accepted": some endpoint took the transaction, submitRawTx is about to
\*               return its hash;
\*   "rejected": the nonce is below the chain's next one: every endpoint
\*               that answers refuses the transaction ('nonce too low',
\*               'already known'); submitRawTx throws;
\*   "lostReply": an endpoint took the transaction but no answer came before
\*               the timeout of line 244; submitRawTx throws;
\*   "allFailed": no endpoint took the transaction (network errors,
\*               timeouts); submitRawTx throws;
\*   "buildError", "buildNonceError": building or signing threw.
\* The catch awaits a resync when the message asks for it, else executeSwap
\* returns success: false and the handler releases the gate.
BuyBroadcast(h) ==
  /\ alive
  /\ pc[h] = "buildBuy"
  /\ \E out \in {"accepted", "rejected", "lostReply", "allFailed",
                 "buildError", "buildNonceError"} :
       LET n == buyNonce[h][1] IN
       /\ out \in {"accepted", "lostReply"} => CanAccept(n)
       /\ out = "rejected" => ~CanAccept(n)
       /\ buyOutcome' = [buyOutcome EXCEPT ![h] = out]
       /\ chainPending' = IF out \in {"accepted", "lostReply"}
                            THEN ChainAfterAccept(n) ELSE chainPending
       /\ CASE out = "accepted" ->
                 /\ pc' = [pc EXCEPT ![h] = "buySubmitted"]
                 /\ KeepGate
            [] out # "accepted" /\ NeedsResync(CaughtMessage(out)) ->
                 /\ pc' = [pc EXCEPT ![h] = "resyncBuy"]
                 /\ KeepGate
            [] OTHER ->
                 /\ ReleaseBuyFailed(h)
                 /\ pc' = [pc EXCEPT ![h] = "done_buyfail"]
  /\ UNCHANGED <<currentNonce, minLiquidityOn, alive, bVars, fVars, svcVars, sellTrigger>>
  /\ UNCHANGED <<buyNonce, sellNonce, approveSent, sellBroadcasts, threw>>
  /\ UNCHANGED <<initialLiquidityBNB, sold, interval, ticks>>

\* Lines 467..487, then 780..781 and 511: submitRawTx returned the hash;
\* currentNonce++ ; the handler starts scheduleSellAfterBuy, which awaits
\* the buy's receipt.
BuyReturn_CountsTwice(h) ==
  /\ alive
  /\ pc[h] = "buySubmitted"
  /\ currentNonce' = currentNonce + 2
  /\ pc' = [pc EXCEPT ![h] = "waitReceipt"]
  /\ UNCHANGED <<gateVars, chainPending, histVars, minLiquidityOn, alive, bVars, fVars, svcVars, sellTrigger>>
  /\ UNCHANGED <<initialLiquidityBNB, sold, interval, ticks>>
BuyReturn(h) ==
  /\ alive
  /\ pc[h] = "buySubmitted"
  /\ currentNonce' = currentNonce + 1
  /\ pc' = [pc EXCEPT ![h] = "waitReceipt"]
  /\ UNCHANGED <<gateVars, chainPending, histVars, minLiquidityOn, alive, bVars, fVars, svcVars, sellTrigger>>
  /\ UNCHANGED <<initialLiquidityBNB, sold, interval, ticks>>

\* Lines 492..497: the resync of the catch block has answered. When it
\* throws, executeSwap rejects and so does the handler: nothing releases.
BuyResync(h) ==
  /\ alive
  /\ pc[h] = "resyncBuy"
  /\ \E answered \in BOOLEAN :
       IF answered
         THEN /\ currentNonce' = chainPending
              /\ ReleaseBuyFailed(h)
              /\ pc' = [pc EXCEPT ![h] = "done_buyfail"]
              /\ UNCHANGED alive
         ELSE /\ pc' = [pc EXCEPT ![h] = "handler_rejected"]
              /\ UnhandledRejection
              /\ KeepGate
              /\ UNCHANGED currentNonce
  /\ UNCHANGED <<chainPending, minLiquidityOn, bVars, fVars, svcVars, sellTrigger>>
  /\ UNCHANGED <<buyNonce, buyOutcome, sellNonce, approveSent, sellBroadcasts, threw>>
  /\ UNCHANGED <<initialLiquidityBNB, sold, interval, ticks>>

\* ---------------------------------------- scheduleSellAfterBuy, entry path
\* The release of lines 784, 785: the .catch attached to scheduleSellAfterBuy.
ReleaseMonitorCrashed(h) == ReleaseGate(h)
\* The release of lines 514, 515.
ReleaseBuyReverted(h) == ReleaseGate(h)
\* The release of lines 528, 529.
ReleaseNoTokens_Missing(h) == KeepGate
ReleaseNoTokens(h) == ReleaseGate(h)
\* The release of lines 539, 540.
ReleaseNoPrice_Missing(h) == KeepGate
ReleaseNoPrice(h) == ReleaseGate(h)

\* Lines 511..525: waitForTransaction has finished. A receipt exists only
\* for a transaction that could be mined; otherwise the wait times out.
ReceiptDone(h) ==
  /\ alive
  /\ pc[h] = "waitReceipt"
  /\ \E r \in {"throws", "missing", "reverted", "success"} :
       /\ r \in {"reverted", "success"} => Mineable(buyNonce[h][1])
       /\ CASE r = "throws" ->
                 /\ ReleaseMonitorCrashed(h)
                 /\ threw' = [threw EXCEPT ![h] = @ \cup {"receipt"}]
                 /\ pc' = [pc EXCEPT ![h] = "done_crash"]
            [] r \in {"missing", "reverted"} ->
                 /\ ReleaseBuyReverted(h)
                 /\ pc' = [pc EXCEPT ![h] = "done_receipt"]
                 /\ UNCHANGED threw
            [] OTHER ->
                 /\ pc' = [pc EXCEPT ![h] = "getBalance"]
                 /\ KeepGate
                 /\ UNCHANGED threw
  /\ UNCHANGED <<nonceVars, minLiquidityOn, alive, bVars, fVars, svcVars, sellTrigger>>
  /\ UNCHANGED <<buyNonce, buyOutcome, sellNonce, approveSent, sellBroadcasts>>
  /\ UNCHANGED <<initialLiquidityBNB, sold, interval, ticks>>

\* Lines 525..536: getTokenBalance has finished.
BalanceRead(h) ==
  /\ alive
  /\ pc[h] = "getBalance"
  /\ \E r \in {"throws", "zero", "positive"} :
       CASE r = "throws" ->
              /\ ReleaseMonitorCrashed(h)
              /\ threw' = [threw EXCEPT ![h] = @ \cup {"balance"}]
              /\ pc' = [pc EXCEPT ![h] = "done_crash"]
         [] r = "zero" ->
              /\ ReleaseNoTokens(h)
              /\ pc' = [pc EXCEPT ![h] = "done_nobalance"]
              /\ UNCHANGED threw
         [] OTHER ->
              /\ pc' = [pc EXCEPT ![h] = "getPrice"]
              /\ KeepGate
              /\ UNCHANGED threw
  /\ UNCHANGED <<nonceVars, minLiquidityOn, alive, bVars, fVars, svcVars, sellTrigger>>
  /\ UNCHANGED <<buyNonce, buyOutcome, sellNonce, approveSent, sellBroadcasts>>
  /\ UNCHANGED <<initialLiquidityBNB, sold, interval, ticks>>

\* Lines 536..668: getCurrentPriceFromReservesSafe has answered (it never
\* throws); with a price, the initial liquidity is read inside a try
\* (lines 548..559, it stays 0 when the read fails or the filter is off),
\* sold is false and the interval is armed.
InitialPriceRead(h) ==
  /\ alive
  /\ pc[h] = "getPrice"
  /\ \E initialPrice \in {"zero", "nonzero"}, liquidityRead \in BOOLEAN :
       IF initialPrice = "zero"
         THEN /\ ReleaseNoPrice(h)
              /\ pc' = [pc EXCEPT ![h] = "done_noprice"]
              /\ UNCHANGED <<initialLiquidityBNB, interval>>
         ELSE /\ initialLiquidityBNB' =
                   [initialLiquidityBNB EXCEPT ![h] = minLiquidityOn /\ liquidityRead]
              /\ interval' = [interval EXCEPT ![h] = TRUE]
              /\ pc' = [pc EXCEPT ![h] = "monitoring"]
              /\ KeepGate
  /\ UNCHANGED <<nonceVars, minLiquidityOn, alive, bVars, fVars, svcVars, sellTrigger>>
  /\ UNCHANGED <<buyNonce, buyOutcome, sellNonce, approveSent, sellBroadcasts, threw>>
  /\ UNCHANGED <<sold, ticks>>

\* ------------------------------------------ the interval and executeSell
\* Line 573: if (sold) return;
AlreadySold_Unchecked(h) == FALSE
AlreadySold(h) == sold[h]

\* Line 631: the tick reads the liquidity only under this condition.
ChecksLiquidity(h) == minLiquidityOn /\ initialLiquidityBNB[h]

\* The reason string of lines 644 and 664.
ReasonOf(to) == IF to = "approveL" THEN "liquidity" ELSE "profit"

\* Lines 573..578 and 287: the synchronous head of executeSell, called by
\* the interval callback awaiting at stage `from`. Either it returns at
\* once (the callback then ends), or it clears the interval, sets sold and
\* awaits approveToken's allowance read at stage `to`. `low` says whether
\* the pool's total liquidity is below the minimum in this tick.
EnterExecuteSell(h, from, to, low) ==
  IF AlreadySold(h)
    THEN /\ ticks' = Finish(h, from)
         /\ UNCHANGED <<sold, interval, sellTrigger>>
    ELSE /\ interval' = [interval EXCEPT ![h] = FALSE]
         /\ sold' = [sold EXCEPT ![h] = TRUE]
         /\ ticks' = Move(h, from, to)
         /\ sellTrigger' = [sellTrigger EXCEPT ![h] =
                               [reason |-> ReasonOf(to), poolLow |-> low]]

\* Lines 627..634 and 653: the interval fires. The callback returns at once
\* when sold; otherwise it awaits the liquidity read when the filter is
\* configured and an initial liquidity was read, else the price read.
TickFire(h) ==
  /\ alive
  /\ interval[h]
  /\ TotalInFlight < MaxInFlight
  /\ ~sold[h]
  /\ ticks' = [ticks EXCEPT ![h] =
                 IF ChecksLiquidity(h)
                   THEN [@ EXCEPT !["liq"] = @ + 1]
                   ELSE [@ EXCEPT !["price"] = @ + 1]]
  /\ UNCHANGED <<gateVars, nonceVars, histVars, minLiquidityOn, alive, bVars, fVars, svcVars, sellTrigger>>
  /\ UNCHANGED <<pc, initialLiquidityBNB, sold, interval>>

\* Lines 634..653: the liquidity read of a callback has finished. Below the
\* minimum it calls executeSell; when the read throws or liquidity is
\* enough the callback goes on to the price read.
TickLiquidityRead(h) ==
  /\ alive
  /\ ticks[h]["liq"] > 0
  /\ \E r \in {"throws", "enough", "low"} :
       IF r = "low"
         THEN EnterExecuteSell(h, "liq", "approveL", TRUE)
         ELSE /\ ticks' = Move(h, "liq", "price")
              /\ UNCHANGED <<sold, interval, sellTrigger>>
  /\ UNCHANGED <<gateVars, nonceVars, histVars, minLiquidityOn, alive, bVars, fVars, svcVars>>
  /\ UNCHANGED <<pc, initialLiquidityBNB>>

\* What the pool's liquidity may be in a tick that reaches the price read:
\* a tick that made the liquidity check got past it, so only a tick that
\* skipped the check can run while the pool is below a configured minimum.
LiquidityAtPriceRead(h) ==
  IF minLiquidityOn /\ ~ChecksLiquidity(h) THEN {"low", "enough"} ELSE {"enough"}

\* Lines 653..666: the price read of a callback has finished: the zero
\* sentinel ends the callback, a price below the target ends it after the
\* peak update, a price at or above the target calls executeSell.
TickPriceReadAs_SellsAtZero(h, currentPrice) ==
  /\ alive
  /\ ticks[h]["price"] > 0
  /\ \E liquidity \in LiquidityAtPriceRead(h) :
       IF currentPrice \in {"zero", "target"}
         THEN EnterExecuteSell(h, "price", "approveP", liquidity = "low")
         ELSE /\ ticks' = Finish(h, "price")
              /\ UNCHANGED <<sold, interval, sellTrigger>>
  /\ UNCHANGED <<gateVars, nonceVars, histVars, minLiquidityOn, alive, bVars, fVars, svcVars>>
  /\ UNCHANGED <<pc, initialLiquidityBNB>>
TickPriceReadAs(h, currentPrice) ==
  /\ alive
  /\ ticks[h]["price"] > 0
  /\ \E liquidity \in LiquidityAtPriceRead(h) :
       IF currentPrice = "target"
         THEN EnterExecuteSell(h, "price", "approveP", liquidity = "low")
         ELSE /\ ticks' = Finish(h, "price")
              /\ UNCHANGED <<sold, interval, sellTrigger>>
  /\ UNCHANGED <<gateVars, nonceVars, histVars, minLiquidityOn, alive, bVars, fVars, svcVars>>
  /\ UNCHANGED <<pc, initialLiquidityBNB>>

TickPriceRead(h) ==
  \E currentPrice \in {"zero", "below", "target"} : TickPriceReadAs(h, currentPrice)

\* Lines 285..298 and 578..583: approveToken has finished.
\*   "sufficient": the allowance covers the balance, no transaction;
\*   "approved": approve was sent with the chain's next nonce and confirmed;
\*   "throwsUnsent": the allowance read or the sending threw;
\*   "throwsSent": approve was sent, waiting for it threw.
\* approveToken is outside executeSell's try: when it throws, executeSell
\* rejects. Called from the liquidity check, the rejection is caught by the
\* callback's own catch (line 647) and the callback goes on to the price
\* read; called from the profit check, the callback's promise rejects.
ApproveDone(h, st) ==
  /\ alive
  /\ ticks[h][st] > 0
  /\ \E r \in {"sufficient", "approved", "throwsUnsent", "throwsSent"} :
       /\ IF r \in {"approved", "throwsSent"}
            THEN /\ chainPending' = chainPending + 1
                 /\ approveSent' = [approveSent EXCEPT ![h] = @ + 1]
            ELSE UNCHANGED <<chainPending, approveSent>>
       /\ IF r \in {"sufficient", "approved"}
            THEN /\ ticks' = Move(h, st, "resync")
                 /\ UNCHANGED <<threw, alive>>
            ELSE /\ threw' = [threw EXCEPT ![h] = @ \cup {"approve"}]
                 /\ IF st = "approveL"
                      THEN /\ ticks' = Move(h, st, "price")
                           /\ UNCHANGED alive
                      ELSE /\ ticks' = Finish(h, st)
                           /\ UnhandledRejection
  /\ UNCHANGED <<gateVars, currentNonce, minLiquidityOn, bVars, fVars, svcVars, sellTrigger>>
  /\ UNCHANGED <<buyNonce, buyOutcome, sellNonce, releases, sellBroadcasts>>
  /\ UNCHANGED <<pc, initialLiquidityBNB, sold, interval>>

\* The releases of executeSell: lines 610, 611 and lines 618, 619.
ReleaseSold(h) == ReleaseGate(h)
ReleaseSellFailed_Missing(h) == KeepGate
ReleaseSellFailed(h) == ReleaseGate(h)

\* Line 583: currentNonce = await provider.getTransactionCount(.., 'pending')
SellNonceRead_NoResync == currentNonce
SellNonceRead == chainPending

\* Lines 583..602 and the catch of 615..623: the resync has finished. When
\* it throws the catch releases the gate; otherwise the nonce is read and
\* executeSell awaits building, signing and broadcasting.
SellResync(h) ==
  /\ alive
  /\ ticks[h]["resync"] > 0
  /\ \E answered \in BOOLEAN :
       IF answered
         THEN /\ currentNonce' = SellNonceRead
              /\ sellNonce' = [sellNonce EXCEPT ![h] = Append(@, SellNonceRead)]
              /\ ticks' = Move(h, "resync", "submit")
              /\ KeepGate
              /\ UNCHANGED <<pc, sold>>
         ELSE /\ ReleaseSellFailed(h)
              /\ sold' = [sold EXCEPT ![h] = TRUE]
              /\ pc' = [pc EXCEPT ![h] = "done_sellfail"]
              /\ ticks' = Finish(h, "resync")
              /\ UNCHANGED <<currentNonce, sellNonce>>
  /\ UNCHANGED <<chainPending, minLiquidityOn, alive, bVars, fVars, svcVars, sellTrigger>>
  /\ UNCHANGED <<buyNonce, buyOutcome, approveSent, sellBroadcasts, threw>>
  /\ UNCHANGED <<initialLiquidityBNB, interval>>

\* Lines 588..603 and the catch of 615..623: the sell transaction, with the
\* nonce read last by executeSell, was built, signed and given to
\* submitRawTx ("buildError": building or signing threw before the call;
\* "lostReply": an endpoint took the transaction but submitRawTx threw).
SellBroadcast(h) ==
  /\ alive
  /\ ticks[h]["submit"] > 0
  /\ \E out \in {"accepted", "lostReply", "allFailed", "buildError"} :
       LET n == sellNonce[h][Len(sellNonce[h])] IN
       /\ out \in {"accepted", "lostReply"} => CanAccept(n)
       /\ sellBroadcasts' = [sellBroadcasts EXCEPT ![h] =
                               IF out = "buildError" THEN @ ELSE @ + 1]
       /\ chainPending' = IF out \in {"accepted", "lostReply"}
                            THEN ChainAfterAccept(n) ELSE chainPending
       /\ IF out = "accepted"
            THEN /\ ticks' = Move(h, "submit", "submitted")
                 /\ KeepGate
                 /\ UNCHANGED <<pc, sold>>
            ELSE /\ ReleaseSellFailed(h)
                 /\ sold' = [sold EXCEPT ![h] = TRUE]
                 /\ pc' = [pc EXCEPT ![h] = "done_sellfail"]
                 /\ ticks' = Finish(h, "submit")
  /\ UNCHANGED <<currentNonce, minLiquidityOn, alive, bVars, fVars, svcVars, sellTrigger>>
  /\ UNCHANGED <<buyNonce, buyOutcome, sellNonce, approveSent, threw>>
  /\ UNCHANGED <<initialLiquidityBNB, interval>>

\* Lines 603..613: submitRawTx returned the sell's hash; currentNonce++ and
\* the gate is released; executeSell returns and the callback ends.
SellReturn(h) ==
  /\ alive
  /\ ticks[h]["submitted"] > 0
  /\ currentNonce' = currentNonce + 1
  /\ ReleaseSold(h)
  /\ pc' = [pc EXCEPT ![h] = "done_sold"]
  /\ ticks' = Finish(h, "submitted")
  /\ UNCHANGED <<chainPending, minLiquidityOn, alive, bVars, fVars, svcVars, sellTrigger>>
  /\ UNCHANGED <<buyNonce, buyOutcome, sellNonce, approveSent, sellBroadcasts, threw>>
  /\ UNCHANGED <<initialLiquidityBNB, sold, interval>>

\* ------------------------------------------- nonce reconciliation timer
\* Lines 800..808: the reply to the 8-second timer's getTransactionCount
\* arrives and the chain is ahead of the counter. (When it is not ahead, or
\* the call throws, which is caught, nothing changes.)
NonceTimer ==
  /\ alive
  /\ chainPending > currentNonce
  /\ currentNonce' = chainPending
  /\ UNCHANGED <<gateVars, chainPending, posVars, histVars>>
  /\ UNCHANGED <<minLiquidityOn, alive, bVars, fVars, svcVars, sellTrigger>>

\* ---------------------------------------------------------- submitRawTx
\* What one endpoint does with the transaction: it answers with a hash,
\* answers without one, or errors, after `latency` time units. A latency of
\* TimeoutUnits + 1 means the answer does not come before the timeout.
Behaviours == [kind : {"hash", "nohash", "error"}, latency : Latencies]

\* Line 241..246: Promise.race of the broadcast against the timeout.
InTime(e) == bPlan[e].latency <= TimeoutUnits

\* Lines 239..259: the submission of endpoint e fulfils with success: true
\* iff the endpoint answered in time and the answer carries a hash; in every
\* other case the catch turns it into success: false.
SubmissionSucceeds(e) == InTime(e) /\ bPlan[e].kind = "hash"

\* Line 262: await Promise.allSettled(submissions)
AllSettled == \A e \in Endpoints : bResult[e] # "pending"

\* Lines 265..278: the loop over results, in the order of rpcProviders,
\* stops at the first fulfilled result with success and a hash.
Successful == {e \in Endpoints : bResult[e] = "success"}
FirstSuccessful_OnlyFirstEndpoint == Successful \cap {1}
FirstSuccessful ==
  {e \in Successful : \A f \in Successful : e <= f}

\* Lines 228..239: submitRawTx is called; every endpoint gets the
\* transaction at once.
SubmitRawTx ==
  /\ bPhase = "idle"
  /\ \E plan \in [Endpoints -> Behaviours] : bPlan' = plan
  /\ bPhase' = "racing"
  /\ bNow' = 0
  /\ UNCHANGED <<bResult, bReturn, botVars, fVars, svcVars>>

\* Lines 241..258: the submission of endpoint e settles, in the order of
\* time: when its answer arrives, or when its timeout fires.
SubmissionSettles(e) ==
  /\ bPhase = "racing"
  /\ bResult[e] = "pending"
  /\ \A f \in Endpoints :
       bResult[f] = "pending" => bPlan[e].latency <= bPlan[f].latency
  /\ bNow' = bPlan[e].latency
  /\ bResult' = [bResult EXCEPT ![e] =
                   IF SubmissionSucceeds(e) THEN "success" ELSE "failure"]
  /\ UNCHANGED <<bPhase, bPlan, bReturn, botVars, fVars, svcVars>>

\* Lines 262..282: allSettled has resolved; submitRawTx returns the hash of
\* the first successful result of the list, or throws.
SubmitRawTxReturns ==
  /\ bPhase = "racing"
  /\ AllSettled
  /\ IF FirstSuccessful # {}
       THEN /\ bPhase' = "returned"
            /\ bReturn' = <<[provider |-> CHOOSE e \in FirstSuccessful : TRUE,
                            at |-> bNow]>>
       ELSE /\ bPhase' = "threw"
            /\ bReturn' = <<>>
  /\ UNCHANGED <<bPlan, bNow, bResult, botVars, fVars, svcVars>>

\* ------------------------------------------------- bigint arithmetic
\* A bigint (non-negative) is the sequence of its decimal digits, least
\* significant first, without leading zeros; 0n is the empty sequence.
\* The operations work on halves of the digit positions, so that the depth
\* of their evaluation grows with the logarithm of the length.
Zero == <<>>

RECURSIVE Num(_)
Num(n) == IF n = 0 THEN Zero ELSE <<n % 10>> \o Num(n \div 10)

\* x without its leading zeros
Norm(x) ==
  LET top == IF \E i \in 1..Len(x) : x[i] # 0
               THEN CHOOSE i \in 1..Len(x) :
                      x[i] # 0 /\ \A j \in (i + 1)..Len(x) : x[j] = 0
               ELSE 0
  IN SubSeq(x, 1, top)

\* The digit of x at position i
Digit(x, i) == IF i <= Len(x) THEN x[i] ELSE 0

\* x * 10^k
ShiftUp(x, k) == IF x = Zero THEN Zero ELSE [i \in 1..k |-> 0] \o x
\* 10n ** k
Pow10(k) == ShiftUp(<<1>>, k)

\* The digits lo..hi of x + y + c, followed by the carry out of them
RECURSIVE AddRange(_, _, _, _, _)
AddRange(x, y, lo, hi, c) ==
  IF lo = hi
    THEN LET t == Digit(x, lo) + Digit(y, lo) + c
         IN <<t % 10, t \div 10>>
    ELSE LET mid == (lo + hi) \div 2
             low == AddRange(x, y, lo, mid, c)
         IN SubSeq(low, 1, Len(low) - 1)
              \o AddRange(x, y, mid + 1, hi, low[Len(low)])
BigAdd(x, y) ==
  LET n == IF Len(x) < Len(y) THEN Len(y) ELSE Len(x)
  IN IF n = 0 THEN Zero ELSE Norm(AddRange(x, y, 1, n, 0))

\* The digits lo..hi of x * d + c, followed by the carry out of them
RECURSIVE MulRange(_, _, _, _, _)
MulRange(x, d, lo, hi, c) ==
  IF lo = hi
    THEN LET t == x[lo] * d + c
         IN <<t % 10, t \div 10>>
    ELSE LET mid == (lo + hi) \div 2
             low == MulRange(x, d, lo, mid, c)
         IN SubSeq(low, 1, Len(low) - 1)
              \o MulRange(x, d, mid + 1, hi, low[Len(low)])
\* x times one decimal digit
BigMulDigit(x, d) ==
  IF d = 0 \/ x = Zero THEN Zero ELSE Norm(MulRange(x, d, 1, Len(x), 0))

\* x times the digits lo..hi of y
RECURSIVE MulDigits(_, _, _, _)
MulDigits(x, y, lo, hi) ==
  IF lo = hi THEN BigMulDigit(x, y[lo])
  ELSE LET mid == (lo + hi) \div 2
           low == MulDigits(x, y, lo, mid)
           high == MulDigits(x, y, mid + 1, hi)
       IN IF Len(low) >= 0 /\ Len(high) >= 0
            THEN BigAdd(low, ShiftUp(high, mid - lo + 1))
            ELSE Zero
BigMul(x, y) ==
  IF x = Zero \/ y = Zero THEN Zero ELSE MulDigits(x, y, 1, Len(y))

BigLeq(x, y) ==
  IF Len(x) # Len(y) THEN Len(x) < Len(y)
  ELSE ~\E i \in 1..Len(x) :
          x[i] > y[i] /\ \A j \in (i + 1)..Len(x) : x[j] = y[j]
BigLt(x, y) == ~BigLeq(y, x)

\* The digits lo..hi of x - y - b, followed by the borrow out of them
RECURSIVE SubRange(_, _, _, _, _)
SubRange(x, y, lo, hi, b) ==
  IF lo = hi
    THEN LET s == x[lo] - Digit(y, lo) - b
         IN <<(s + 10) % 10, IF s < 0 THEN 1 ELSE 0>>
    ELSE LET mid == (lo + hi) \div 2
             low == SubRange(x, y, lo, mid, b)
         IN SubSeq(low, 1, Len(low) - 1)
              \o SubRange(x, y, mid + 1, hi, low[Len(low)])
\* x - y, for y <= x
BigSub(x, y) ==
  IF x = Zero \/ Len(y) = 0 THEN x
  ELSE Norm(SubSeq(SubRange(x, y, 1, Len(x), 0), 1, Len(x)))

\* The digit of the quotient r / y, for r < 10 * y
DivDigit(r, y) ==
  CHOOSE k \in 0..9 :
    /\ BigLeq(BigMulDigit(y, k), r)
    /\ k < 9 => BigLt(r, BigMulDigit(y, k + 1))

\* Long division over the digits hi down to lo of x, entered with the
\* remainder rem (below y) of the digits above them: the quotient digits
\* of these positions and the remainder after them.
RECURSIVE DivRange(_, _, _, _, _)
DivRange(x, y, lo, hi, rem) ==
  IF lo = hi
    THEN LET r == Norm(<<x[lo]>> \o rem)
             d == DivDigit(r, y)
         IN <<<<d>>, BigSub(r, BigMulDigit(y, d))>>
    ELSE LET mid == (lo + hi) \div 2
             high == DivRange(x, y, mid + 1, hi, rem)
             low == DivRange(x, y, lo, mid, high[2])
         IN IF Len(high[2]) >= 0
              THEN <<low[1] \o high[1], low[2]>>
              ELSE <<>>
\* x / y on bigints (the quotient, rounded toward zero), for y > 0
BigDiv(x, y) ==
  IF x = Zero \/ Len(y) = 0 THEN Zero
  ELSE Norm(DivRange(x, y, 1, Len(x), Zero)[1])

\* --------------------------------------- getCurrentPriceFromReservesSafe
\* Lines 377, 378: which reserve is the WBNB side and which the token's.
ReserveWBNB_Swapped(reserve0, reserve1, tokenIsToken1) ==
  IF tokenIsToken1 THEN reserve1 ELSE reserve0
ReserveWBNB(reserve0, reserve1, tokenIsToken1) ==
  IF tokenIsToken1 THEN reserve0 ELSE reserve1
ReserveToken(reserve0, reserve1, tokenIsToken1) ==
  IF tokenIsToken1 THEN reserve1 ELSE reserve0

\* Line 382: (reserveWBNB * 1_000_000n * 10n ** 18n) / reserveToken
PriceFromReserves(reserve0, reserve1, tokenIsToken1) ==
  BigDiv(BigMul(BigMul(ReserveWBNB(reserve0, reserve1, tokenIsToken1),
                       Num(1000000)),
                Pow10(18)),
         ReserveToken(reserve0, reserve1, tokenIsToken1))

\* The reserves a read may return: 0 and m * 10^e wei.
ReserveMantissas == {1, 3, 7, 10}
ReserveExponents == {0, 18, 20}
ReserveValues ==
  {Zero} \cup {ShiftUp(Num(m), e) : m \in ReserveMantissas, e \in ReserveExponents}

\* Lines 371..384: one read of the reserves has answered: with two non-zero
\* reserves the function returns the price computed from them; otherwise
\* this read returns nothing (the loop goes on to the next provider).
PriceOfRead ==
  /\ fnCall = <<>>
  /\ \E reserve0 \in ReserveValues, reserve1 \in ReserveValues,
        tokenIsToken1 \in BOOLEAN :
       /\ fnCall' = [fn |-> "getCurrentPriceFromReservesSafe",
                     reserve0 |-> reserve0, reserve1 |-> reserve1,
                     tokenIsToken1 |-> tokenIsToken1]
       /\ fnResult' = IF reserve0 # Zero /\ reserve1 # Zero
                        THEN <<PriceFromReserves(reserve0, reserve1, tokenIsToken1)>>
                        ELSE <<>>
  /\ UNCHANGED <<botVars, bVars, svcVars>>

\* ------------------------------------------------------ shouldBuyToken
\* A string is the sequence of its characters.
UpperLetters == <<"A", "B", "C", "D", "E", "F", "G", "H", "I", "J", "K", "L", "M", "N", "O", "P", "Q", "R", "S", "T", "U", "V", "W", "X", "Y", "Z">>
LowerLetters == <<"a", "b", "c", "d", "e", "f", "g", "h", "i", "j", "k", "l", "m", "n", "o", "p", "q", "r", "s", "t", "u", "v", "w", "x", "y", "z">>

\* String.prototype.toLowerCase, character by character
LowerChar(c) ==
  IF \E i \in 1..Len(UpperLetters) : UpperLetters[i] = c
    THEN LowerLetters[CHOOSE i \in 1..Len(UpperLetters) : UpperLetters[i] = c]
    ELSE c
ToLowerCase(str) == [i \in 1..Len(str) |-> LowerChar(str[i])]

\* String.prototype.includes
Includes(str, part) ==
  \E i \in 0..(Len(str) - Len(part)) : SubSeq(str, i + 1, i + Len(part)) = part

\* String.prototype.trim (spaces)
RECURSIVE TrimStart(_)
TrimStart(str) ==
  IF str # <<>> /\ Head(str) = " " THEN TrimStart(Tail(str)) ELSE str
RECURSIVE TrimEnd(_)
TrimEnd(str) ==
  IF str # <<>> /\ str[Len(str)] = " "
    THEN TrimEnd(SubSeq(str, 1, Len(str) - 1)) ELSE str
Trim(str) == TrimEnd(TrimStart(str))

\* String.prototype.split(','): cur is the piece being read
RECURSIVE SplitFrom(_, _)
SplitFrom(str, cur) ==
  IF str = <<>> THEN <<cur>>
  ELSE IF Head(str) = "," THEN <<cur>> \o SplitFrom(Tail(str), <<>>)
  ELSE SplitFrom(Tail(str), Append(cur, Head(str)))
SplitComma(str) == SplitFrom(str, <<>>)

\* Lines 98..101: TOKEN_NAME_CONTAINS is the trimmed variable (or ''), and
\* TOKEN_NAME_KEYWORDS its comma-separated pieces, trimmed, without the
\* empty ones.
TokenNameKeywords(env) ==
  LET contains == Trim(env)
      pieces == IF contains # <<>> THEN SplitComma(contains) ELSE <<>>
  IN SelectSeq([i \in 1..Len(pieces) |-> Trim(pieces[i])], LAMBDA k : Len(k) > 0)

\* Line 331: the keyword as it is compared with the lowercased name.
KeywordCompared_AsWritten(keyword) == keyword
KeywordCompared(keyword) == ToLowerCase(keyword)

\* Lines 322..336
ShouldBuyTokenOf(keywords, name) ==
  IF Len(keywords) = 0 THEN TRUE
  ELSE LET nameLower == ToLowerCase(name)
           containsKeyword ==
             \E i \in 1..Len(keywords) :
               Includes(nameLower, KeywordCompared(keywords[i]))
       IN ~containsKeyword

\* Values of TOKEN_NAME_CONTAINS and token names.
KeywordConfigs ==
  {<<>>, <<"M", "o", "o", "n", ",", "P", "e", "p", "e">>, <<" ", "m", "o", "o", "n", " ", ",", " ">>, <<"P", "E", "P", "E">>, <<",">>, <<" ", " ">>}
TokenNames ==
  {<<>>, <<"S", "a", "f", "e", "M", "o", "o", "n">>, <<"R", "o", "c", "k", "e", "t">>, <<"p", "e", "p", "e">>, <<"M", "O", "O", "N">>, <<"M", "o">>, <<"P", "e", " ", "p", "e">>}

\* shouldBuyToken(name) under a configuration of TOKEN_NAME_CONTAINS
ShouldBuyToken ==
  /\ fnCall = <<>>
  /\ \E env \in KeywordConfigs, name \in TokenNames :
       /\ fnCall' = [fn |-> "shouldBuyToken", env |-> env, name |-> name]
       /\ fnResult' = <<ShouldBuyTokenOf(TokenNameKeywords(env), name)>>
  /\ UNCHANGED <<botVars, bVars, svcVars>>

\* ------------------------------------------- minimum-liquidity filter
\* 2n ** k
RECURSIVE Pow2(_)
Pow2(k) ==
  IF k = 0 THEN <<1>>
  ELSE LET half == Pow2(k \div 2)
           square == BigMul(half, half)
       IN IF Len(half) > 0 /\ k % 2 = 1 THEN BigMulDigit(square, 2)
          ELSE square

\* A decimal amount is the bigint of its 10^-18 units (an amount of BNB is
\* its wei). A double that is finite and not negative is <<m, k>>, the
\* value m / 2^k, with m a bigint of at most 53 bits.
MantissaBits == 53
EtherDecimals == 18

\* The binary exponent of the decimal amount n > 0: the k at which
\* 2^52 <= n * 2^k / 10^18 < 2^53. The number of digits of n leaves a few
\* candidates (a decimal digit is between 3.321 and 3.322 bits).
ExponentOf(n) ==
  LET least == BigMul(Pow2(MantissaBits - 1), Pow10(EtherDecimals))
      lo == MantissaBits - 2 + (3321 * (EtherDecimals - Len(n))) \div 1000
      hi == MantissaBits + (3322 * (EtherDecimals + 1 - Len(n))) \div 1000
  IN CHOOSE k \in lo..hi :
       /\ k >= 0
       /\ BigLeq(least, BigMul(n, Pow2(k)))
       /\ k > 0 => BigLt(BigMul(n, Pow2(k - 1)), least)

IsOdd(x) == x # Zero /\ Head(x) % 2 = 1

\* x / y rounded to the nearest integer, a tie to the even one
RoundHalfEven(x, y) ==
  LET q == BigDiv(x, y)
      twice == BigMulDigit(BigSub(x, BigMul(q, y)), 2)
  IN IF BigLt(y, twice) \/ (twice = y /\ IsOdd(q))
       THEN BigAdd(q, <<1>>)
       ELSE q

\* The double nearest to the decimal amount n (below 2^53), as the
\* conversion of a decimal string to a Number gives it.
ToDouble(n) ==
  IF n = Zero THEN <<Zero, 0>>
  ELSE LET k == ExponentOf(n)
           scaled == BigMul(n, Pow2(k))
       IN IF k >= 0 /\ scaled # Zero
            THEN <<RoundHalfEven(scaled, Pow10(EtherDecimals)), k>>
            ELSE <<Zero, 0>>

\* a < b on doubles
DoubleLt(a, b) == BigLt(BigMul(a[1], Pow2(b[2])), BigMul(b[1], Pow2(a[2])))
\* a * 2 on doubles (exact)
DoubleTimes2(a) == <<BigMulDigit(a[1], 2), a[2]>>

DigitChars == <<"0", "1", "2", "3", "4", "5", "6", "7", "8", "9">>
IsDigit(c) == \E i \in 1..10 : DigitChars[i] = c
DigitOf(c) == (CHOOSE i \in 1..10 : DigitChars[i] = c) - 1

\* The longest prefix of s made of digits
RECURSIVE DigitPrefix(_)
DigitPrefix(s) ==
  IF s # <<>> /\ IsDigit(Head(s)) THEN <<Head(s)>> \o DigitPrefix(Tail(s))
  ELSE <<>>

\* The bigint written by a sequence of digit characters
RECURSIVE DigitsValue(_)
DigitsValue(s) ==
  IF s = <<>> THEN Zero
  ELSE Norm(<<DigitOf(s[Len(s)])>> \o DigitsValue(SubSeq(s, 1, Len(s) - 1)))

\* The decimal that parseFloat(s) reads, for a text without exponent and
\* with at most 18 decimals: leading blanks and a sign are skipped, then
\* the longest prefix "digits[.digits]" is read; no digit at all gives NaN.
ParseDecimal(s) ==
  LET t == TrimStart(s)
      neg == t # <<>> /\ Head(t) = "-"
      u == IF t # <<>> /\ Head(t) \in {"-", "+"} THEN Tail(t) ELSE t
      int == DigitPrefix(u)
      rest == SubSeq(u, Len(int) + 1, Len(u))
      frac == IF rest # <<>> /\ Head(rest) = "." THEN DigitPrefix(Tail(rest))
              ELSE <<>>
  IN IF int = <<>> /\ frac = <<>>
       THEN [nan |-> TRUE, neg |-> FALSE, units |-> Zero]
       ELSE [nan |-> FALSE, neg |-> neg,
             units |-> ShiftUp(DigitsValue(int \o frac),
                               EtherDecimals - Len(frac))]

\* parseFloat(s): the double nearest to that decimal
ParseFloat(s) ==
  LET d == ParseDecimal(s)
  IN [nan |-> d.nan, neg |-> d.neg, abs |-> ToDouble(d.units)]

\* The environment variable is unset, or set to a text.
Unset == [set |-> FALSE, text |-> <<>>]
SetTo(text) == [set |-> TRUE, text |-> text]

\* Line 107: process.env.MIN_LIQUIDITY_BNB ? parseFloat(...) : 0
MinLiquidityBnb(env) ==
  IF env.set /\ env.text # <<>> THEN ParseFloat(env.text)
  ELSE [nan |-> FALSE, neg |-> FALSE, abs |-> <<Zero, 0>>]

\* Line 705: MIN_LIQUIDITY_BNB > 0
MinLiquidityPositive(min) == ~min.nan /\ ~min.neg /\ min.abs[1] # Zero

\* Lines 707, 708: Number(ethers.formatEther(wbnbReserve)); formatEther
\* writes the wei amount as a decimal with 18 decimals, Number reads it.
WbnbReserve(r0, r1, token0IsWbnb) == IF token0IsWbnb THEN r0 ELSE r1
WbnbLiquidityBNB(r0, r1, token0IsWbnb) ==
  ToDouble(WbnbReserve(r0, r1, token0IsWbnb))
\* Line 711
TotalLiquidityBNB(r0, r1, token0IsWbnb) ==
  DoubleTimes2(WbnbLiquidityBNB(r0, r1, token0IsWbnb))

\* Lines 705..719: TRUE when the handler returns here
SkippedForLiquidity(env, r0, r1, token0IsWbnb) ==
  LET min == MinLiquidityBnb(env)
  IN /\ MinLiquidityPositive(min)
     /\ DoubleLt(TotalLiquidityBNB(r0, r1, token0IsWbnb), min.abs)

\* Values of MIN_LIQUIDITY_BNB
MinLiquidityConfigs ==
  {Unset, SetTo(<<>>), SetTo(<<"0">>), SetTo(<<"0", ".", "0">>),
   SetTo(<<"1", ".", "0">>), SetTo(<<"0", ".", "1">>), SetTo(<<"5">>),
   SetTo(<<"a", "b", "c">>), SetTo(<<"-", "1">>)}

\* The reserves of a new pool, both non-zero after line 694. On the WBNB
\* side, in wei: amounts at, just below and away from half of the minimums
\* above. On the token's side, in its smallest unit.
Wei(m, e) == ShiftUp(Num(m), e)
WbnbReserves ==
  {Wei(1, 0), Wei(5, 16), BigSub(Wei(5, 16), Wei(1, 0)),
   Wei(5, 17), BigSub(Wei(5, 17), Wei(1, 0)), BigSub(Wei(5, 17), Wei(1, 8)),
   Wei(1, 18), Wei(25, 17), Wei(3, 18)}
TokenReserves == {Wei(1, 0), Wei(1, 27)}

\* Lines 701..719 of the PairCreated handler, after the reserves were read
LiquidityCheck ==
  /\ fnCall = <<>>
  /\ \E env \in MinLiquidityConfigs, wbnb \in WbnbReserves,
        token \in TokenReserves, token0IsWbnb \in BOOLEAN :
       LET r0 == IF token0IsWbnb THEN wbnb ELSE token
           r1 == IF token0IsWbnb THEN token ELSE wbnb
       IN /\ fnCall' = [fn |-> "liquidityCheck", env |-> env, r0 |-> r0,
                        r1 |-> r1, token0IsWbnb |-> token0IsWbnb]
          /\ fnResult' = <<SkippedForLiquidity(env, r0, r1, token0IsWbnb)>>
  /\ UNCHANGED <<botVars, bVars, svcVars>>

\* ---------------------------------------------------------- gas pricing
\* Gas prices are bigints of wei (1 gwei is 10^9 wei). The price the
\* network reports, or the price of a target transaction; a price the
\* provider does not report (null) counts as 0n.
GasPrices ==
  {Zero, Wei(1, 9), Wei(3, 9), Wei(7, 9), Wei(9, 9), Wei(10, 9), Wei(20, 9)}
\* parseUnits(config.maxGasPrice, 'gwei'): the default and a lower setting
MaxGasPrices == {Wei(10, 9), Wei(5, 9)}

\* Lines 436..443 of executeSwap
ExecuteSwapGasPrice(competitiveGas, feeGasPrice) ==
  IF competitiveGas
    THEN LET networkGas == IF feeGasPrice = Zero THEN Wei(3, 9) ELSE feeGasPrice
         IN BigDiv(BigMul(networkGas, Num(150)), Num(100))
    ELSE Wei(5, 7)

\* executeSwap up to the transaction request: the gas price it carries
ExecuteSwapBuild ==
  /\ fnCall = <<>>
  /\ \E competitiveGas \in BOOLEAN, feeGasPrice \in GasPrices,
        maxGas \in MaxGasPrices :
       /\ fnCall' = [fn |-> "executeSwap", competitiveGas |-> competitiveGas,
                     feeGasPrice |-> feeGasPrice, maxGas |-> maxGas]
       /\ fnResult' = <<ExecuteSwapGasPrice(competitiveGas, feeGasPrice)>>
  /\ UNCHANGED <<botVars, bVars, svcVars>>

\* MEVExecutor: targetGasPrice.mul(percent).div(100), at most maxGas
\* (frontrun 110, backrun 105)
ClampedGasPrice(targetGasPrice, percent, maxGas) ==
  LET raised == BigDiv(BigMul(targetGasPrice, Num(percent)), Num(100))
  IN IF BigLt(maxGas, raised) THEN maxGas ELSE raised

\* calculateOptimalGas: web3Provider.getGasPrice() is the network price
\* times floor(1.2 * 1000) / 1000; for the current or the next block it is
\* raised by gasPriceMultiplier * 100 / 100.
CalculateOptimalGas(networkGasPrice, blocksAhead) ==
  LET baseGasPrice == BigDiv(BigMul(networkGasPrice, Num(1200)), Num(1000))
  IN IF blocksAhead <= 1
       THEN BigDiv(BigMul(baseGasPrice, Num(120)), Num(100))
       ELSE baseGasPrice

\* One transaction of the MEVExecutor: the gas price it is sent with
MevSend ==
  /\ fnCall = <<>>
  /\ \E kind \in {"executeFrontrun", "executeBackrun",
                  "executeWithPrecisionTiming"},
        gas \in GasPrices, maxGas \in MaxGasPrices, blocksAhead \in 0..2 :
       /\ kind # "executeWithPrecisionTiming" => blocksAhead = 0
       /\ fnCall' = [fn |-> kind, gas |-> gas, maxGas |-> maxGas,
                     blocksAhead |-> blocksAhead]
       /\ fnResult' =
            <<CASE kind = "executeFrontrun" -> ClampedGasPrice(gas, 110, maxGas)
                [] kind = "executeBackrun" -> ClampedGasPrice(gas, 105, maxGas)
                [] OTHER -> CalculateOptimalGas(gas, blocksAhead)>>
  /\ UNCHANGED <<botVars, bVars, svcVars>>

\* -------------------------------------------------------------- start-up
\* A variable of the environment: unset, set to the empty text, or set.
EnvSettings == {Unset, SetTo(<<>>), SetTo(<<"0", ".", "1">>)}

\* Line 91: String(process.env.SEND_BNB)
SendBNB(env) ==
  IF env.set THEN env.text
  ELSE <<"u", "n", "d", "e", "f", "i", "n", "e", "d">>

\* Where the process ends for lack of configuration: while the module is
\* loaded (the throw of line 146, or a provider constructor of lines 150
\* and 223 that throws on the URL it is given), in the PairCreated handler
\* after it took the lock (lines 769..776), or nowhere.
StartupOutcome(sendBnb, privateKey, constructorThrows) ==
  IF ~privateKey.set \/ privateKey.text = <<>> THEN "throwsAtLoad"
  ELSE IF constructorThrows THEN "throwsAtLoad"
  ELSE IF SendBNB(sendBnb) = <<>> THEN "exitsAfterLock"
  ELSE "runs"

\* The module is loaded and main runs, under an environment. Whether the
\* constructor of a provider throws on a URL that is unset or empty is the
\* library's choice; on a URL that is set it does not.
ModuleLoad ==
  /\ fnCall = <<>>
  /\ \E sendBnb \in EnvSettings, wsUrl \in EnvSettings, rpcUrl \in EnvSettings,
        privateKey \in EnvSettings, constructorThrows \in BOOLEAN :
       /\ constructorThrows =>
            \/ ~wsUrl.set \/ wsUrl.text = <<>>
            \/ ~rpcUrl.set \/ rpcUrl.text = <<>>
       /\ fnCall' = [fn |-> "main", SEND_BNB |-> sendBnb,
                     WS_PROVIDER_URL |-> wsUrl, RPC_PROVIDER_URL |-> rpcUrl,
                     PRIVATE_KEY |-> privateKey]
       /\ fnResult' = <<StartupOutcome(sendBnb, privateKey, constructorThrows)>>
  /\ UNCHANGED <<botVars, bVars, svcVars>>

\* ------------------------------------------------ TradeExecutor.buyToken
maxRetries == 3

\* Line 45: the wait after a failed attempt, in milliseconds
RetryDelay_Fixed(attempt) == 1000
RetryDelay(attempt) == 1000 * attempt

\* buyToken is called: the loop starts at attempt 1, lastError undefined.
\* made counts the calls of executeBuy, slept lists the waits.
BuyToken ==
  /\ fnCall = <<>>
  /\ fnCall' = [fn |-> "buyToken", attempt |-> 1, lastError |-> <<>>,
                made |-> 0, slept |-> <<>>]
  /\ fnResult' = <<>>
  /\ UNCHANGED <<botVars, bVars, svcVars>>

\* Lines 27..55: executeBuy of the current attempt returns (it returns
\* success: true only, lines 128..133) or throws with a message; after a
\* throw the loop waits if attempts remain and goes on, and after the last
\* attempt buyToken returns lastError?.message || 'Max retry attempts
\* reached'.
ExecuteBuySettles ==
  /\ fnCall # <<>> /\ fnCall.fn = "buyToken" /\ fnResult = <<>>
  /\ \E outcome \in {"success", "Insufficient balance",
                     "Transaction failed on-chain", "timeout"} :
       LET attempt == fnCall.attempt
       IN IF outcome = "success"
            THEN /\ fnCall' = [fnCall EXCEPT !.made = @ + 1]
                 /\ fnResult' = <<[success |-> TRUE, error |-> <<>>]>>
            ELSE /\ fnCall' =
                      [fnCall EXCEPT
                         !.made = @ + 1,
                         !.lastError = <<outcome>>,
                         !.slept = IF attempt < maxRetries
                                     THEN Append(@, RetryDelay(attempt))
                                     ELSE @,
                         !.attempt = @ + 1]
                 /\ fnResult' =
                      IF attempt + 1 <= maxRetries THEN <<>>
                      ELSE <<[success |-> FALSE, error |-> <<outcome>>]>>
  /\ UNCHANGED <<botVars, bVars, svcVars>>

\* ------------------------------------------------- take-profit threshold
\* Line 565: const targetPrice = (initialPrice * 105n) / 100n; the bigint
\* division truncates.
TargetPrice(initialPrice) == (initialPrice * 105) \div 100

\* Lines 653..665: the part of a tick after the liquidity check. The price
\* is fetched; a zero price returns; a price above the peak becomes the new
\* peak; a price of at least the target calls executeSell. monitorProfit
\* runs only after a nonzero initial price (line 551), and the peak starts
\* at the initial price (line 568).
ProfitTick ==
  /\ fnCall = <<>>
  /\ \E initialPrice \in {1, 19, 20, 100, 1000},
        peakAbove \in {0, 3},
        currentPrice \in {0, 1, 2, 19, 20, 21, 104, 105, 106, 1049, 1050, 1051} :
       LET highestPriceSeen == initialPrice + peakAbove
           targetPrice == TargetPrice(initialPrice)
       IN /\ fnCall' = [fn |-> "tick", initialPrice |-> initialPrice,
                        highestPriceSeen |-> highestPriceSeen,
                        currentPrice |-> currentPrice]
          /\ fnResult' =
               IF currentPrice = 0
                 THEN <<[highestPriceSeen |-> highestPriceSeen, sells |-> FALSE]>>
                 ELSE <<[highestPriceSeen |->
                           IF currentPrice > highestPriceSeen
                             THEN currentPrice ELSE highestPriceSeen,
                         sells |-> currentPrice >= targetPrice]>>
  /\ UNCHANGED <<botVars, bVars, svcVars>>

\* ------------------------ getCurrentPriceFromReservesSafe: the retry loop
\* Line 364: const maxRetries = 5 (the oracle's own constant).
oracleMaxRetries == 5

\* What one read gives (lines 371..374): the reserves, a throw of
\* getReserves, or the 3000 ms timer winning the race.
OracleReads ==
  {[kind |-> k, reserve0 |-> Zero, reserve1 |-> Zero] : k \in {"throws", "timeout"}}
    \cup {[kind |-> "reserves", reserve0 |-> r0, reserve1 |-> r1] :
            r0, r1 \in {Zero, Wei(1, 0), Wei(1, 18), Wei(1, 27)}}

\* Lines 363..367: the call; i = 0 and the first provider is next.
OracleCall ==
  /\ fnCall = <<>>
  /\ \E tokenIsToken1 \in BOOLEAN :
       fnCall' = [fn |-> "getCurrentPriceFromReservesSafe:loop",
                  tokenIsToken1 |-> tokenIsToken1, i |-> 0, tried |-> <<>>,
                  reads |-> 0,
                  last |-> [kind |-> "none", reserve0 |-> Zero, reserve1 |-> Zero]]
  /\ fnResult' = <<>>
  /\ UNCHANGED <<botVars, bVars, svcVars>>

\* Line 365: providersToTry = [provider, ...rpcProviders]; index 0 is the
\* WebSocket provider, 1..NumEndpoints are the HTTP providers, and
\* fnCall.tried lists the providers already read in this round.
\* Lines 367..394: the read of the next provider has settled. With two
\* non-zero reserves the function returns the price; otherwise the inner
\* loop goes on, after the last provider the round ends (800 ms wait, i++),
\* and after the last round the function returns 0n.
OracleRead ==
  /\ fnCall # <<>>
  /\ fnCall.fn = "getCurrentPriceFromReservesSafe:loop"
  /\ fnResult = <<>>
  /\ fnCall.i < oracleMaxRetries
  /\ \E read \in OracleReads :
       LET prov == Len(fnCall.tried)
           roundEnds == prov = NumEndpoints
           returns == /\ read.kind = "reserves"
                      /\ read.reserve0 # Zero
                      /\ read.reserve1 # Zero
           i == IF ~returns /\ roundEnds THEN fnCall.i + 1 ELSE fnCall.i
       IN /\ fnCall' = [fnCall EXCEPT
                          !.reads = @ + 1,
                          !.last = read,
                          !.tried = IF ~returns /\ roundEnds
                                      THEN <<>> ELSE Append(@, prov),
                          !.i = i]
          /\ fnResult' =
               IF returns
                 THEN <<PriceFromReserves(read.reserve0, read.reserve1,
                                          fnCall.tokenIsToken1)>>
                 ELSE IF i = oracleMaxRetries THEN <<Zero>> ELSE <<>>
  /\ UNCHANGED <<botVars, bVars, svcVars>>

\* ---------------------------------------------------------- approveToken
\* ethers.MaxUint256 = 2^256 - 1
MaxUint256 == BigSub(Pow2(256), Num(1))

\* Lines 285..298: approveToken(token, amount) reads the router's
\* allowance; when it covers the amount nothing is sent, otherwise approve
\* is sent for ethers.MaxUint256. fnResult lists the amounts of the approve
\* transactions sent. executeSell passes tokenBalance (line 578), which is
\* positive (monitorProfit returns at a zero balance).
ApproveToken ==
  /\ fnCall = <<>>
  /\ \E amount \in {Wei(1, 18), Wei(5, 20)},
        allowance \in {Zero, Wei(1, 18), Wei(5, 20), MaxUint256} :
       /\ fnCall' = [fn |-> "approveToken", amount |-> amount,
                     allowance |-> allowance]
       /\ fnResult' = IF BigLeq(amount, allowance) THEN <<>> ELSE <<MaxUint256>>
  /\ UNCHANGED <<botVars, bVars, svcVars>>

\* ------------------------------------------------------- AutoSellManager
\* Token addresses that sales are scheduled for.
NumTokens == 2
\* Calls of scheduleSell in one behaviour.
MaxSales == 3
\* Timer callbacks that may be awaiting at once.
MaxCallbacks == 2

TokenAddresses == 1..NumTokens
SaleIds == 1..MaxSales
Callbacks == 1..MaxCallbacks

\* A PendingSale object: its identity, the Map key and strategy.type.
\* 'trailing-stop' decides on the fetched price as 'profit-target' does.
StrategyTypes == {"profit-target", "time-based"}
NoSale == [id |-> 0, address |-> 0, type |-> "none"]
IdleCallback == [stage |-> "idle", sale |-> NoSale, visited |-> {}]

\* Lines 653..660: the fields of a new AutoSellManager.
InitAutoSell ==
  /\ pendingSales = {}
  /\ monitoringInterval = FALSE
  /\ callbacks = [c \in Callbacks |-> IdleCallback]
  /\ sellTokenCalls = [id \in SaleIds |-> 0]
  /\ created = 0
  /\ expired = {}

\* pendingSales.delete(address)
MapDelete(address) == {s \in pendingSales : s.address # address}

\* Lines 804..809 as called at 789..792 and 820..822: the timer after the
\* Map has become `sales`.
StopMonitoringIfEmpty(sales) == IF sales = {} THEN FALSE ELSE monitoringInterval

\* Lines 696..702: the for-of over pendingSales.entries() goes on to the
\* next entry of the live Map (insertion order) that this callback has not
\* visited, and awaits getTokenPrice for it (line 719); with no entry left
\* the callback ends.
NextEntry(c, sales) ==
  LET left == {s \in sales : s.id \notin callbacks[c].visited} IN
  IF left = {}
    THEN [callbacks EXCEPT ![c] = IdleCallback]
    ELSE LET sale == CHOOSE s \in left : \A t \in left : s.id <= t.id
         IN [callbacks EXCEPT ![c] =
               [stage |-> "price", sale |-> sale,
                visited |-> callbacks[c].visited \cup {sale.id}]]

\* Lines 665..689: scheduleSell
ScheduleSell ==
  /\ created < MaxSales
  /\ \E address \in TokenAddresses, type \in StrategyTypes :
       pendingSales' = MapDelete(address)
                         \cup {[id |-> created + 1, address |-> address, type |-> type]}
  /\ created' = created + 1
  /\ monitoringInterval' = TRUE
  /\ UNCHANGED <<callbacks, sellTokenCalls, expired>>
  /\ UNCHANGED <<botVars, bVars, fVars, sVars>>

\* Line 749: Date.now() - sale.scheduledAt has reached strategy.timeMs.
TimeLimitElapses ==
  /\ \E s \in pendingSales :
       /\ s.type = "time-based" /\ s.id \notin expired
       /\ expired' = expired \cup {s.id}
  /\ UNCHANGED <<pendingSales, monitoringInterval, callbacks, sellTokenCalls, created>>
  /\ UNCHANGED <<botVars, bVars, fVars, sVars>>

\* Lines 695..703: the timer fires and its callback starts the loop.
MonitoringTick ==
  /\ monitoringInterval
  /\ \E c \in Callbacks :
       /\ callbacks[c].stage = "idle"
       /\ \A d \in Callbacks : d < c => callbacks[d].stage # "idle"
       /\ callbacks' = NextEntry(c, pendingSales)
  /\ UNCHANGED <<pendingSales, monitoringInterval, sellTokenCalls, created, expired>>
  /\ UNCHANGED <<botVars, bVars, fVars, sVars>>

\* Lines 719..765 and 771..780: getTokenPrice has answered ('0' when the
\* call failed, tradeExecutor.ts 225..236). A zero price returns; else the
\* strategy decides, and executeSell calls sellToken when it says sell.
CheckSellCondition(c) ==
  /\ callbacks[c].stage = "price"
  /\ \E currentPrice \in {"zero", "belowTarget", "atTarget"} :
       LET sale == callbacks[c].sale
           shouldSell ==
             /\ currentPrice # "zero"
             /\ IF sale.type = "time-based"
                  THEN sale.id \in expired
                  ELSE currentPrice = "atTarget"
       IN IF shouldSell
            THEN /\ callbacks' = [callbacks EXCEPT ![c].stage = "sell"]
                 /\ sellTokenCalls' = [sellTokenCalls EXCEPT ![sale.id] = @ + 1]
            ELSE /\ callbacks' = NextEntry(c, pendingSales)
                 /\ UNCHANGED sellTokenCalls
  /\ UNCHANGED <<pendingSales, monitoringInterval, created, expired>>
  /\ UNCHANGED <<botVars, bVars, fVars, sVars>>

\* Lines 777..793: sellToken has returned (it catches its own errors,
\* tradeExecutor.ts 166..220); success or not, the address is deleted and
\* the timer stopped when the Map is empty; the loop goes on.
SellTokenReturns_KeepsTimer(c) ==
  /\ callbacks[c].stage = "sell"
  /\ LET sales == MapDelete(callbacks[c].sale.address) IN
       /\ pendingSales' = sales
       /\ UNCHANGED monitoringInterval
       /\ callbacks' = NextEntry(c, sales)
  /\ UNCHANGED <<sellTokenCalls, created, expired>>
  /\ UNCHANGED <<botVars, bVars, fVars, sVars>>
SellTokenReturns(c) ==
  /\ callbacks[c].stage = "sell"
  /\ LET sales == MapDelete(callbacks[c].sale.address) IN
       /\ pendingSales' = sales
       /\ monitoringInterval' = StopMonitoringIfEmpty(sales)
       /\ callbacks' = NextEntry(c, sales)
  /\ UNCHANGED <<sellTokenCalls, created, expired>>
  /\ UNCHANGED <<botVars, bVars, fVars, sVars>>

\* Lines 814..827: cancelSell
CancelSell ==
  /\ \E address \in TokenAddresses :
       LET sales == MapDelete(address) IN
       /\ pendingSales' = sales
       /\ monitoringInterval' =
            IF sales # pendingSales THEN StopMonitoringIfEmpty(sales)
            ELSE monitoringInterval
  /\ UNCHANGED <<callbacks, sellTokenCalls, created, expired>>
  /\ UNCHANGED <<botVars, bVars, fVars, sVars>>

\* Lines 838..842: shutdown
Shutdown ==
  /\ monitoringInterval' = FALSE
  /\ pendingSales' = {}
  /\ UNCHANGED <<callbacks, sellTokenCalls, created, expired>>
  /\ UNCHANGED <<botVars, bVars, fVars, sVars>>

\* ------------------------------------------------------------- SniperBot
\* Events (of either monitor) delivered in one behaviour.
MaxDeliveries == 4

\* sniperBot.ts lines 9..20: a new SniperBot; no monitor is listening.
InitSniper ==
  /\ isRunning = FALSE
  /\ startPc = "idle"
  /\ monitoring = {}
  /\ tradedTokens = {}
  /\ buyTokenCalls = [t \in TokenAddresses |-> 0]
  /\ awaiting = [t \in TokenAddresses |-> [enrich |-> 0, buy |-> 0]]
  /\ delivered = 0

\* Lines 25..43: start() is called while no call of it is in progress. A
\* running bot returns at once; otherwise displayConfig and validateSetup
\* are awaited, and when neither throws isRunning is set and the token
\* monitor is started.
SniperStart ==
  /\ startPc \in {"idle", "threw", "alreadyRunning"}
  /\ IF isRunning
       THEN startPc' = "alreadyRunning" /\ UNCHANGED isRunning
       ELSE \E validated \in BOOLEAN :
              IF validated
                THEN isRunning' = TRUE /\ startPc' = "tokenMonitor"
                ELSE startPc' = "threw" /\ UNCHANGED isRunning
  /\ UNCHANGED <<monitoring, tradedTokens, buyTokenCalls, awaiting, delivered>>
  /\ UNCHANGED <<botVars, bVars, fVars, aVars>>

\* Lines 44..54: the await of tokenMonitor.startMonitoring, then of
\* pairMonitor.startMonitoring, has settled. A monitor that threw
\* (tradeExecutor.ts 267..269, or attaching the listener failed) takes
\* start() to its catch, which logs and rethrows.
MonitorStarted ==
  /\ startPc \in {"tokenMonitor", "pairMonitor"}
  /\ \E throws \in BOOLEAN :
       IF throws
         THEN startPc' = "threw" /\ UNCHANGED monitoring
         ELSE /\ monitoring' = monitoring \cup {startPc}
              /\ startPc' = IF startPc = "tokenMonitor" THEN "pairMonitor" ELSE "running"
  /\ UNCHANGED <<isRunning, tradedTokens, buyTokenCalls, awaiting, delivered>>
  /\ UNCHANGED <<botVars, bVars, fVars, aVars>>

\* Lines 60..82: handleNewToken up to its await: a token in tradedTokens is
\* skipped, otherwise it is added and buyToken is called. `suspended` is
\* awaiting as the caller left it.
HandleNewToken_Unchecked(t, suspended) ==
  /\ tradedTokens' = tradedTokens \cup {t}
  /\ buyTokenCalls' = [buyTokenCalls EXCEPT ![t] = @ + 1]
  /\ awaiting' = [suspended EXCEPT ![t].buy = @ + 1]
HandleNewToken(t, suspended) ==
  IF t \in tradedTokens
    THEN /\ awaiting' = suspended
         /\ UNCHANGED <<tradedTokens, buyTokenCalls>>
    ELSE /\ tradedTokens' = tradedTokens \cup {t}
         /\ buyTokenCalls' = [buyTokenCalls EXCEPT ![t] = @ + 1]
         /\ awaiting' = [suspended EXCEPT ![t].buy = @ + 1]

\* tradeExecutor.ts 284..307: the token monitor delivers a TokenCreated
\* event to handleNewToken.
TokenCreated(t) ==
  /\ "tokenMonitor" \in monitoring
  /\ delivered < MaxDeliveries
  /\ delivered' = delivered + 1
  /\ HandleNewToken(t, awaiting)
  /\ UNCHANGED <<isRunning, startPc, monitoring>>
  /\ UNCHANGED <<botVars, bVars, fVars, aVars>>

\* Lines 113..146: the pair monitor delivers a pair of WBNB and t to
\* handleNewPair: a token in tradedTokens returns, otherwise the handler
\* awaits name(), symbol() and decimals().
HandleNewPair(t) ==
  /\ "pairMonitor" \in monitoring
  /\ delivered < MaxDeliveries
  /\ delivered' = delivered + 1
  /\ awaiting' = IF t \in tradedTokens THEN awaiting
                 ELSE [awaiting EXCEPT ![t].enrich = @ + 1]
  /\ UNCHANGED <<isRunning, startPc, monitoring, tradedTokens, buyTokenCalls>>
  /\ UNCHANGED <<botVars, bVars, fVars, aVars>>

\* Lines 139..150: the enrichment has settled (its errors are swallowed)
\* and handleNewPair delegates to handleNewToken.
PairEnriched(t) ==
  /\ awaiting[t].enrich > 0
  /\ HandleNewToken(t, [awaiting EXCEPT ![t].enrich = @ - 1])
  /\ UNCHANGED <<isRunning, startPc, monitoring, delivered>>
  /\ UNCHANGED <<botVars, bVars, fVars, aVars>>

\* Lines 82..107: buyToken has returned or thrown; the statistics are
\* updated and the handler ends. The token stays in tradedTokens.
BuyTokenReturns(t) ==
  /\ awaiting[t].buy > 0
  /\ awaiting' = [awaiting EXCEPT ![t].buy = @ - 1]
  /\ UNCHANGED <<isRunning, startPc, monitoring, tradedTokens, buyTokenCalls, delivered>>
  /\ UNCHANGED <<botVars, bVars, fVars, aVars>>

\* ------------------------------------- the legacy monitor of src/new.ts
\* new.ts lines 391..430: scheduleSellAfterBuy has confirmed the buy, read
\* a balance and an initial price and armed its 1-second interval, for each
\* position; sold is false. The positions' state is kept in the variables
\* of the same name (sold, interval, ticks, sellBroadcasts, threw).
InitLegacy ==
  /\ isSnipingActive = FALSE
  /\ currentTargetToken = Null
  /\ chainPending = 0
  /\ currentNonce = chainPending
  /\ minLiquidityOn = FALSE
  /\ alive = TRUE
  /\ pc = [h \in Events |-> "monitoring"]
  /\ initialLiquidityBNB = [h \in Events |-> FALSE]
  /\ sold = [h \in Events |-> FALSE]
  /\ interval = [h \in Events |-> TRUE]
  /\ ticks = [h \in Events |-> NoTicks]
  /\ buyNonce = [h \in Events |-> <<>>]
  /\ buyOutcome = [h \in Events |-> "accepted"]
  /\ sellNonce = [h \in Events |-> <<>>]
  /\ approveSent = [h \in Events |-> 0]
  /\ releases = [h \in Events |-> 0]
  /\ sellBroadcasts = [h \in Events |-> 0]
  /\ threw = [h \in Events |-> {}]
  /\ sellTrigger = [h \in Events |-> <<>>]
  /\ InitBroadcastIdle /\ InitPureIdle /\ InitAutoSell /\ InitSniper

\* new.ts lines 430..433: the interval fires; the callback returns when
\* sold, otherwise it awaits the price.
LegacyTick(h) ==
  /\ alive
  /\ interval[h]
  /\ TotalInFlight < MaxInFlight
  /\ ~sold[h]
  /\ ticks' = [ticks EXCEPT ![h] = [@ EXCEPT !["price"] = @ + 1]]
  /\ UNCHANGED <<sold, interval, sellBroadcasts, threw, alive>>
  /\ UNCHANGED <<gateVars, nonceVars, minLiquidityOn, pc, initialLiquidityBNB>>
  /\ UNCHANGED <<buyNonce, buyOutcome, sellNonce, approveSent, releases, sellTrigger>>
  /\ UNCHANGED <<bVars, fVars, svcVars>>

\* new.ts lines 433..449: the price has been read. Zero or a price below
\* the target ends the callback; a price at the target clears the
\* interval, sets sold and awaits approveToken.
LegacyPriceRead(h) ==
  /\ alive
  /\ ticks[h]["price"] > 0
  /\ \E currentPrice \in {"zero", "below", "target"} :
       IF currentPrice = "target"
         THEN /\ interval' = [interval EXCEPT ![h] = FALSE]
              /\ sold' = [sold EXCEPT ![h] = TRUE]
              /\ ticks' = Move(h, "price", "approveP")
         ELSE /\ ticks' = Finish(h, "price")
              /\ UNCHANGED <<sold, interval>>
  /\ UNCHANGED <<sellBroadcasts, threw, alive>>
  /\ UNCHANGED <<gateVars, nonceVars, minLiquidityOn, pc, initialLiquidityBNB>>
  /\ UNCHANGED <<buyNonce, buyOutcome, sellNonce, approveSent, releases, sellTrigger>>
  /\ UNCHANGED <<bVars, fVars, svcVars>>

\* new.ts lines 449..479: an await of the sell has settled.
\*   "approveP": approveToken (outside the try: a throw rejects the callback);
\*   "resync": getTransactionCount, then building and signing, after which
\*             submitRawTx is called;
\*   "submitted": submitRawTx.
\* A throw inside the try runs the catch: sold = false.
LegacySellStep(h, st) ==
  /\ alive
  /\ ticks[h][st] > 0
  /\ \E throws \in BOOLEAN :
       CASE st = "approveP" ->
              /\ IF throws
                   THEN /\ ticks' = Finish(h, st)
                        /\ threw' = [threw EXCEPT ![h] = @ \cup {"approve"}]
                        /\ UnhandledRejection
                   ELSE /\ ticks' = Move(h, st, "resync")
                        /\ UNCHANGED <<threw, alive>>
              /\ UNCHANGED <<sold, sellBroadcasts>>
         [] st = "resync" ->
              /\ IF throws
                   THEN /\ ticks' = Finish(h, st)
                        /\ sold' = [sold EXCEPT ![h] = FALSE]
                        /\ UNCHANGED sellBroadcasts
                   ELSE /\ ticks' = Move(h, st, "submitted")
                        /\ sellBroadcasts' = [sellBroadcasts EXCEPT ![h] = @ + 1]
                        /\ UNCHANGED sold
              /\ UNCHANGED <<threw, alive>>
         [] st = "submitted" ->
              /\ ticks' = Finish(h, st)
              /\ sold' = [sold EXCEPT ![h] = sold[h] /\ ~throws]
              /\ UNCHANGED <<sellBroadcasts, threw, alive>>
  /\ UNCHANGED interval
  /\ UNCHANGED <<gateVars, nonceVars, minLiquidityOn, pc, initialLiquidityBNB>>
  /\ UNCHANGED <<buyNonce, buyOutcome, sellNonce, approveSent, releases, sellTrigger>>
  /\ UNCHANGED <<bVars, fVars, svcVars>>

\* new.ts lines 483..490: the 10-minute timer fires; an unsold position
\* has its interval cleared (the sell itself is left as a comment).
LegacyTimeout(h) ==
  /\ alive
  /\ ~sold[h]
  /\ interval[h]
  /\ interval' = [interval EXCEPT ![h] = FALSE]
  /\ UNCHANGED <<sold, ticks, sellBroadcasts, threw, alive>>
  /\ UNCHANGED <<gateVars, nonceVars, minLiquidityOn, pc, initialLiquidityBNB>>
  /\ UNCHANGED <<buyNonce, buyOutcome, sellNonce, approveSent, releases, sellTrigger>>
  /\ UNCHANGED <<bVars, fVars, svcVars>>

\* ------------------------------------------------------- specification
Init == InitBot /\ InitBroadcastIdle /\ InitPureIdle /\ InitAutoSell /\ InitSniper

Next ==
  \/ \E h \in Events : PairCreated(h)
  \/ \E h \in Events : ReservesRead(h)
  \/ \E h \in Events : TokenInfoRead(h)
  \/ \E h \in Events : LockAndStartSwap(h)
  \/ \E h \in Events : BuyBroadcast(h)
  \/ \E h \in Events : BuyReturn(h)
  \/ \E h \in Events : BuyResync(h)
  \/ \E h \in Events : ReceiptDone(h)
  \/ \E h \in Events : BalanceRead(h)
  \/ \E h \in Events : InitialPriceRead(h)
  \/ \E h \in Events : TickFire(h)
  \/ \E h \in Events : TickLiquidityRead(h)
  \/ \E h \in Events : TickPriceRead(h)
  \/ \E h \in Events : ApproveDone(h, "approveL")
  \/ \E h \in Events : ApproveDone(h, "approveP")
  \/ \E h \in Events : SellResync(h)
  \/ \E h \in Events : SellBroadcast(h)
  \/ \E h \in Events : SellReturn(h)
  \/ NonceTimer

Spec == Init /\ [][Next]_vars

\* What the event loop guarantees: a callback that awaits a network call is
\* resumed when the call returns or times out (every await of the code is
\* on a call that settles or is raced against a timeout), and the timers
\* of lines 627 and 800 keep firing while they are armed. The arrival of
\* PairCreated events is not guaranteed.
Fairness ==
  /\ \A h \in Events :
       /\ WF_vars(ReservesRead(h))
       /\ WF_vars(TokenInfoRead(h))
       /\ WF_vars(LockAndStartSwap(h))
       /\ WF_vars(BuyBroadcast(h))
       /\ WF_vars(BuyReturn(h))
       /\ WF_vars(BuyResync(h))
       /\ WF_vars(ReceiptDone(h))
       /\ WF_vars(BalanceRead(h))
       /\ WF_vars(InitialPriceRead(h))
       /\ WF_vars(TickFire(h))
       /\ WF_vars(TickLiquidityRead(h))
       /\ WF_vars(TickPriceRead(h))
       /\ WF_vars(ApproveDone(h, "approveL"))
       /\ WF_vars(ApproveDone(h, "approveP"))
       /\ WF_vars(SellResync(h))
       /\ WF_vars(SellBroadcast(h))
       /\ WF_vars(SellReturn(h))
  /\ WF_vars(NonceTimer)

SpecLive == Spec /\ Fairness


InitBroadcast == InitBot /\ ~minLiquidityOn /\ InitBroadcastIdle /\ InitPureIdle /\ InitAutoSell /\ InitSniper

NextBroadcast ==
  \/ SubmitRawTx
  \/ \E e \in Endpoints : SubmissionSettles(e)
  \/ SubmitRawTxReturns

SpecBroadcast == InitBroadcast /\ [][NextBroadcast]_vars

\* The functions without side effects: one call, with arguments of any
\* value.
InitPure == InitBot /\ ~minLiquidityOn /\ InitBroadcastIdle /\ InitPureIdle /\ InitAutoSell /\ InitSniper

NextPure ==
  \/ PriceOfRead
  \/ ShouldBuyToken
  \/ LiquidityCheck
  \/ ExecuteSwapBuild
  \/ MevSend
  \/ ModuleLoad
  \/ BuyToken
  \/ ExecuteBuySettles
  \/ ProfitTick
  \/ OracleCall
  \/ OracleRead
  \/ ApproveToken

SpecPure == InitPure /\ [][NextPure]_vars

\* AutoSellManager: its public methods are called in any order, the timer
\* fires while it is set.
InitAutoSellManager ==
  /\ InitBot /\ ~minLiquidityOn /\ InitBroadcastIdle /\ InitPureIdle
  /\ InitAutoSell /\ InitSniper

NextAutoSell ==
  \/ ScheduleSell
  \/ TimeLimitElapses
  \/ MonitoringTick
  \/ \E c \in Callbacks : CheckSellCondition(c)
  \/ \E c \in Callbacks : SellTokenReturns(c)
  \/ CancelSell
  \/ Shutdown

SpecAutoSell == InitAutoSellManager /\ [][NextAutoSell]_vars

\* SniperBot: start() is called, the monitors deliver events for any
\* token in any order, and the awaits of the handlers settle in any order.
InitSniperBot ==
  /\ InitBot /\ ~minLiquidityOn /\ InitBroadcastIdle /\ InitPureIdle
  /\ InitAutoSell /\ InitSniper

NextSniper ==
  \/ SniperStart
  \/ MonitorStarted
  \/ \E t \in TokenAddresses : TokenCreated(t)
  \/ \E t \in TokenAddresses : HandleNewPair(t)
  \/ \E t \in TokenAddresses : PairEnriched(t)
  \/ \E t \in TokenAddresses : BuyTokenReturns(t)

SpecSniper == InitSniperBot /\ [][NextSniper]_vars

\* The monitor of src/new.ts over the positions it watches.
NextLegacy ==
  \/ \E h \in Events : LegacyTick(h)
  \/ \E h \in Events : LegacyPriceRead(h)
  \/ \E h \in Events : LegacySellStep(h, "approveP")
  \/ \E h \in Events : LegacySellStep(h, "resync")
  \/ \E h \in Events : LegacySellStep(h, "submitted")
  \/ \E h \in Events : LegacyTimeout(h)

SpecLegacy == InitLegacy /\ [][NextLegacy]_vars

\* ================================================================ claims
\* Handler h has taken the lock (executeSwap read its nonce right after)
\* and its position has not released the gate since.
HasLock(h) == buyNonce[h] # <<>> /\ releases[h] = 0

\* Handler h has not yet come to its last gate check.
BeforeLock(h) == pc[h] \in {"idle", "getReserves", "getTokenInfo", "sleep80"}

\* The continuations of position h that still hold the lifecycle open.
EntryPath == {"buildBuy", "buySubmitted", "resyncBuy", "waitReceipt",
              "getBalance", "getPrice"}

\* The lifecycle of an accepted target has ended: nothing of it is awaiting
\* and its interval is not armed.
Ended(h) ==
  /\ buyNonce[h] # <<>>
  /\ pc[h] \notin EntryPath
  /\ ~interval[h]
  /\ InFlight(h) = 0

\* C1. Mutual exclusion of the snipe gate: however the handlers interleave
\* at their suspension points, at most one handler holds the lock between
\* two releases, the gate then names that handler's token, and when every
\* event qualified, every handler has made its gate decision and no release
\* has happened yet, exactly one called executeSwap and the others returned
\* at a gate check.
C1_MutualExclusion ==
  /\ Cardinality({h \in Events : HasLock(h)}) <= 1
  /\ \A h \in Events :
       HasLock(h) => isSnipingActive /\ currentTargetToken = Token(h)
  /\ ( /\ \A h \in Events : ~BeforeLock(h) /\ pc[h] # "skip_filter"
       /\ \A h \in Events : releases[h] = 0 )
     => /\ Cardinality({h \in Events : buyNonce[h] # <<>>}) = 1
        /\ Cardinality({h \in Events : pc[h] = "skip_busy"}) = NumEvents - 1

\* C1 witness: the handler of the first event lost the gate to the handler
\* of a later event, which holds it.
C1_Witness ==
  /\ pc[1] = "skip_busy"
  /\ \E h \in Events : h > 1 /\ HasLock(h)
  /\ \A h \in Events : releases[h] = 0

\* The terminal outcomes of an accepted target named by C2.
Outcomes == {"done_buyfail", "done_receipt", "done_nobalance", "done_noprice",
             "done_sold", "done_sellfail"}

\* C2. Gate always released: once a position has reached one of its terminal
\* outcomes (failed buy, missing or failed receipt, zero balance, zero
\* initial price, sell broadcast, sell failed) it has released the gate: the
\* gate no longer names its token, and the gate is inactive with a null
\* target unless a later target has locked it since.
C2_GateAlwaysReleased ==
  \A h \in Events :
    pc[h] \in Outcomes =>
      /\ releases[h] >= 1
      /\ currentTargetToken # Token(h)
      /\ (\A g \in Events : ~HasLock(g)) =>
           ~isSnipingActive /\ currentTargetToken = Null

\* C2 witness: one position ended without tokens, a later one was sold, and
\* the gate is free.
C2_Witness ==
  /\ \E h \in Events : pc[h] = "done_nobalance"
  /\ \E h \in Events : pc[h] = "done_sold"
  /\ ~isSnipingActive

\* C3. Monitor crash releases the gate: when a step of the monitor's
\* continuation of position h has thrown and nothing of the position is
\* awaiting any more, the position has released the gate.
C3_MonitorCrashReleases ==
  \A h \in Events :
    (threw[h] # {} /\ Ended(h)) => releases[h] >= 1

\* C4. At-most-one sell: submitRawTx is called at most once for the sell of
\* a position, and once executeSell has been entered (sold) the interval is
\* cleared, so no further callback starts.
C4_AtMostOneSell ==
  \A h \in Events :
    /\ sellBroadcasts[h] <= 1
    /\ sold[h] => ~interval[h]

\* C4 witness: the sell was broadcast while another callback of the same
\* interval was still awaiting its price read.
C4_Witness ==
  \E h \in Events : sellBroadcasts[h] = 1 /\ ticks[h]["price"] > 0

\* C5. Exactly-once release: a position never releases the gate twice, and
\* when its lifecycle has ended it has released it once.
C5_ExactlyOneRelease ==
  \A h \in Events :
    /\ releases[h] <= 1
    /\ Ended(h) => releases[h] = 1

\* C6. Gate state invariant: isSnipingActive = false implies
\* currentTargetToken = null.
C6_GateInvariant == ~isSnipingActive => currentTargetToken = Null

\* C6 witness: the gate was locked for a target and has been released.
C6_Witness ==
  /\ ~isSnipingActive
  /\ currentTargetToken = Null
  /\ \E h \in Events : releases[h] = 1

\* Endpoints whose plan is to answer with a hash before the timeout.
Accepting == {e \in Endpoints : bPlan[e].kind = "hash" /\ bPlan[e].latency <= TimeoutUnits}

\* C7. Broadcast returns on first success: when submitRawTx has returned a
\* hash, it returned at the time the first endpoint accepted.
C7_ReturnsOnFirstSuccess ==
  bPhase = "returned" =>
    \E e \in Accepting :
      /\ bReturn[1].at = bPlan[e].latency
      /\ \A f \in Accepting : bPlan[e].latency <= bPlan[f].latency

\* C8. Broadcast winner is first in time: the result submitRawTx returns is
\* that of the accepting endpoint that answered first.
C8_WinnerIsFirstInTime ==
  bPhase = "returned" =>
    \A f \in Accepting : bPlan[bReturn[1].provider].latency <= bPlan[f].latency

\* C9. Broadcast failure condition: once submitRawTx has finished, it has
\* thrown iff every endpoint errored, answered without a hash or did not
\* answer before the timeout; with at least one accepting endpoint it has
\* returned the result of an accepting endpoint.
C9_FailsIffAllFail ==
  /\ bPhase = "threw" => Accepting = {}
  /\ bPhase = "returned" => bReturn[1].provider \in Accepting

\* C9 witness: submitRawTx returned although the first endpoint errored and
\* another endpoint timed out.
C9_Witness ==
  /\ bPhase = "returned"
  /\ bPlan[1].kind = "error"
  /\ \E e \in Endpoints : bPlan[e].latency > TimeoutUnits

\* C10 as stated. Nonce monotonicity: the nonce of the sell is the nonce of
\* the buy of the same position plus one.
C10_SellNonceIsBuyPlusOne ==
  \A h \in Events :
    sellNonce[h] # <<>> => sellNonce[h][1] = buyNonce[h][1] + 1

\* C10 amended. The nonce of the sell is the nonce of the buy plus one, plus
\* one more when executeSell sent an approval transaction before the sell.
C10_SellNonceCountsApproval ==
  \A h \in Events :
    sellNonce[h] # <<>> =>
      /\ Len(sellNonce[h]) = 1
      /\ sellNonce[h][1] = buyNonce[h][1] + 1 + approveSent[h]

\* C10 witness: a sell was broadcast after an approval, for the second
\* position of the run.
C10_Witness ==
  \E h \in Events :
    /\ sellBroadcasts[h] = 1
    /\ approveSent[h] = 1
    /\ buyNonce[h][1] > 0

\* C11. Nonce resync on conflict: when executeSwap returns success: false
\* for a buy that the endpoints refused because of its nonce, currentNonce
\* is then the chain's pending transaction count.
C11_ResyncOnNonceConflict ==
  [][\A h \in Events :
       ( /\ buyOutcome'[h] = "rejected"
         /\ pc[h] # "done_buyfail"
         /\ pc'[h] = "done_buyfail" )
       => currentNonce' = chainPending']_vars

\* C12. Time-based escape: a position whose interval is armed leaves the
\* watching state: with time passing (the timers keep firing) the monitor
\* enters executeSell even when no tick ever sees the liquidity below the
\* minimum or the price at the target.
C12_TimeBasedEscape ==
  \A h \in Events : interval[h] ~> (sold[h] \/ ~alive)

\* C13. Liquidity check precedence: with the liquidity filter configured, a
\* sell triggered in a tick in which the pool's total liquidity was below
\* the minimum carries the liquidity-drop reason, not the profit reason.
C13_LiquidityReasonFirst ==
  \A h \in Events :
    (minLiquidityOn /\ sellTrigger[h] # <<>> /\ sellTrigger[h].poolLow)
      => sellTrigger[h].reason = "liquidity"

\* The stages of a callback that is inside executeSell.
SellStages == {"approveL", "approveP", "resync", "submit", "submitted"}

\* C14. Failed sell is terminal: once the sell of a position has failed
\* (the catch of executeSell has run), the position has ended: the interval
\* is cleared and sold is set, so no later or overlapping tick enters
\* executeSell; no callback is inside executeSell; submitRawTx was called
\* at most once for the sell; and the position has released the gate.
C14_FailedSellIsTerminal ==
  \A h \in Events :
    pc[h] = "done_sellfail" =>
      /\ sold[h] /\ ~interval[h]
      /\ \A st \in SellStages : ticks[h][st] = 0
      /\ Len(sellNonce[h]) <= 1 /\ sellBroadcasts[h] <= 1
      /\ releases[h] = 1
      /\ currentTargetToken # Token(h)

\* C14 witness: the sell broadcast of a position failed while another tick
\* of the same interval was still awaiting its price read.
C14_Witness ==
  \E h \in Events :
    /\ pc[h] = "done_sellfail"
    /\ sellBroadcasts[h] = 1
    /\ ticks[h]["price"] > 0

\* The ends of the entry path of scheduleSellAfterBuy: the receipt is
\* missing or not successful, the balance is zero, the initial price is
\* zero, or one of the reads threw.
EntryFailed == {"done_receipt", "done_nobalance", "done_noprice", "done_crash"}

\* Where a position stands once the three entry checks have passed.
EntryPassed == {"monitoring", "done_sold", "done_sellfail"}

\* C15. Monitoring entry conditions: the interval is armed, and a tick or a
\* sell exists, only for a position whose receipt was successful, whose
\* balance was non-zero and whose initial price was non-zero; a position
\* that failed one of the three has no interval, no tick, no sell, and has
\* released the gate.
C15_MonitoringEntry ==
  \A h \in Events :
    /\ (interval[h] \/ InFlight(h) > 0 \/ sold[h] \/ sellNonce[h] # <<>>
          \/ sellBroadcasts[h] > 0)
         => pc[h] \in EntryPassed
    /\ pc[h] \in EntryFailed =>
         /\ ~interval[h] /\ InFlight(h) = 0
         /\ ~sold[h] /\ sellNonce[h] = <<>> /\ sellBroadcasts[h] = 0
         /\ releases[h] = 1
         /\ currentTargetToken # Token(h)

\* C15 witness: one position ended at the zero initial price, and a later
\* position passed the three checks and has a tick in flight.
C15_Witness ==
  /\ \E h \in Events : pc[h] = "done_noprice"
  /\ \E h \in Events : pc[h] = "monitoring" /\ InFlight(h) > 0

\* The two ways a handler ends on a rejection path: at a filter (non-WBNB
\* pair, reserve read failure, zero reserve, low liquidity, no token
\* info, deny-listed name) or at one of the three gate checks.
Rejected == {"skip_filter", "skip_busy"}

\* C16. Rejection paths have no effect on the gate: the step in which a
\* handler returns on a rejection path leaves isSnipingActive and
\* currentTargetToken as they were, throws nothing (the process goes on as
\* before) and the handler has not called executeSwap (it read no nonce).
C16_RejectionKeepsGate ==
  [][\A h \in Events :
       (pc[h] \notin Rejected /\ pc'[h] \in Rejected) =>
         /\ isSnipingActive' = isSnipingActive
         /\ currentTargetToken' = currentTargetToken
         /\ alive' = alive
         /\ buyNonce'[h] = <<>>
         /\ releases'[h] = 0]_vars

\* C16 witness: the second event was rejected at a gate check while the
\* position of the first was being monitored, which still holds the gate.
C16_Witness ==
  /\ pc[2] = "skip_busy"
  /\ pc[1] = "monitoring"
  /\ isSnipingActive /\ currentTargetToken = Token(1)

\* C17. No exception escapes a PairCreated handler invocation: no handler
\* ends by rejecting, and once executeSwap has finished with a failed buy
\* the gate has been released by that handler.
C17_HandlerNeverRejects ==
  \A h \in Events :
    /\ pc[h] # "handler_rejected"
    /\ (buyOutcome[h] \notin {"none", "accepted"}
          /\ pc[h] \notin {"buildBuy", "resyncBuy"})
         => releases[h] = 1

\* The arguments of the last call, as C18 names them: the base reserve is
\* reserve0 and the token reserve is reserve1 when the token is the second
\* leg of the pair, and the reverse otherwise.
BaseReserve == IF fnCall.tokenIsToken1 THEN fnCall.reserve0 ELSE fnCall.reserve1
TokenReserve == IF fnCall.tokenIsToken1 THEN fnCall.reserve1 ELSE fnCall.reserve0

\* C18. Price scaling: the price computed from a read of two non-zero
\* reserves is p = floor(baseReserve * 10^24 / tokenReserve), that is
\* p * tokenReserve <= baseReserve * 10^24 < (p + 1) * tokenReserve; and
\* for base = 10 * 10^18, token = 1000 * 10^18 with the token as second leg
\* p / 10^24 = 0.01, that is p * 100 = 10^24.
C18_PriceScaling ==
  (fnCall # <<>> /\ fnCall.fn = "getCurrentPriceFromReservesSafe"
     /\ fnResult # <<>>) =>
    LET p == fnResult[1]
        scaled == BigMul(BaseReserve, Pow10(24))
    IN /\ BigLeq(BigMul(p, TokenReserve), scaled)
       /\ BigLt(scaled, BigMul(BigAdd(p, Num(1)), TokenReserve))
       /\ ( /\ fnCall.tokenIsToken1
            /\ fnCall.reserve0 = ShiftUp(Num(10), 18)
            /\ fnCall.reserve1 = ShiftUp(Num(1000), 18) )
          => BigMul(p, Num(100)) = Pow10(24)

\* C18 witness: the price of the example was computed, and it is 10^22.
C18_Witness ==
  /\ fnCall # <<>> /\ fnCall.fn = "getCurrentPriceFromReservesSafe"
  /\ fnCall.tokenIsToken1
  /\ fnCall.reserve0 = ShiftUp(Num(10), 18)
  /\ fnCall.reserve1 = ShiftUp(Num(1000), 18)
  /\ fnResult = <<Pow10(22)>>

\* The keywords of C19's example, and its two names.
MoonPepe == <<<<"M", "o", "o", "n">>, <<"P", "e", "p", "e">>>>
SafeMoon == <<"S", "a", "f", "e", "M", "o", "o", "n">>
Rocket == <<"R", "o", "c", "k", "e", "t">>

\* The name, lowercased, contains the lowercased form of the keyword.
NameHasKeyword(name, keyword) ==
  LET n == ToLowerCase(name)
      k == ToLowerCase(keyword)
  IN \E i \in 1..Len(n) : \E j \in i..Len(n) : SubSeq(n, i, j) = k

\* C19. Deny-list filter: shouldBuyToken(name) is false exactly when the
\* keyword list is non-empty and the lowercased name contains the
\* lowercased form of one of the keywords; with the keywords Moon and Pepe,
\* SafeMoon is rejected and Rocket accepted; with an empty configuration
\* every name is accepted.
C19_DenyListFilter ==
  (fnCall # <<>> /\ fnCall.fn = "shouldBuyToken") =>
    LET keywords == TokenNameKeywords(fnCall.env)
        name == fnCall.name
    IN /\ fnResult[1] = FALSE <=>
            /\ keywords # <<>>
            /\ \E i \in 1..Len(keywords) : NameHasKeyword(name, keywords[i])
       /\ (keywords = MoonPepe /\ name = SafeMoon) => fnResult[1] = FALSE
       /\ (keywords = MoonPepe /\ name = Rocket) => fnResult[1] = TRUE
       /\ fnCall.env = <<>> => fnResult[1] = TRUE

\* C19 witness: with the keywords Moon and Pepe, SafeMoon was rejected.
C19_Witness ==
  /\ fnCall # <<>> /\ fnCall.fn = "shouldBuyToken"
  /\ TokenNameKeywords(fnCall.env) = MoonPepe
  /\ fnCall.name = SafeMoon
  /\ fnResult = <<FALSE>>

\* C20: minimum-liquidity filter. With MIN_LIQUIDITY_BNB above 0, the
\* handler skips the event at the liquidity check exactly when twice the
\* WBNB reserve of the pool is below the configured minimum; with
\* MIN_LIQUIDITY_BNB unset or 0 it skips no event there.
ConfiguredMinimum(env) ==
  IF env.set /\ env.text # <<>> THEN ParseDecimal(env.text)
  ELSE [nan |-> FALSE, neg |-> FALSE, units |-> Zero]
BaseAssetReserve(call) == IF call.token0IsWbnb THEN call.r0 ELSE call.r1
C20_MinimumLiquidityFilter ==
  (fnCall # <<>> /\ fnCall.fn = "liquidityCheck") =>
    LET min == ConfiguredMinimum(fnCall.env)
        twice == BigMulDigit(BaseAssetReserve(fnCall), 2)
    IN /\ (~min.nan /\ ~min.neg /\ min.units # Zero) =>
            (fnResult[1] <=> BigLt(twice, min.units))
       /\ (~min.nan /\ min.units = Zero) => ~fnResult[1]

\* C21: gas price ceiling on buys. The gas price of every buy transaction
\* built by executeSwap is at most the configured maximum gas price, with
\* the fixed default and with competitive gas.
C21_BuyGasPriceCeiling ==
  (fnCall # <<>> /\ fnCall.fn = "executeSwap") =>
    BigLeq(fnResult[1], fnCall.maxGas)

\* C22: every transaction sent by executeFrontrun, executeBackrun and
\* executeWithPrecisionTiming carries a gas price no greater than
\* MAX_GAS_PRICE.
C22_MevGasPriceCeiling ==
  (fnCall # <<>> /\ fnCall.fn \in {"executeFrontrun", "executeBackrun",
                                   "executeWithPrecisionTiming"}) =>
    BigLeq(fnResult[1], fnCall.maxGas)

\* C23: required configuration is checked at start-up. Whenever the signing
\* key, the event-source URL, the broadcast URL or the spend amount is
\* missing, the process fails before any subscription and any gate lock.
C23_RequiredConfiguration ==
  (fnCall # <<>> /\ fnCall.fn = "main") =>
    ((\/ ~fnCall.SEND_BNB.set
      \/ ~fnCall.WS_PROVIDER_URL.set
      \/ ~fnCall.RPC_PROVIDER_URL.set
      \/ ~fnCall.PRIVATE_KEY.set) => fnResult[1] = "throwsAtLoad")

\* C24: retry mechanism of buyToken. At most 3 attempts are made; a
\* success ends the loop; every failed attempt but the last is followed by
\* a wait that doubles from one attempt to the next; after the third
\* failure the result is success: false with the last error message.
RECURSIVE TwoToThe(_)
TwoToThe(n) == IF n = 0 THEN 1 ELSE 2 * TwoToThe(n - 1)
C24_RetryMechanism ==
  (fnCall # <<>> /\ fnCall.fn = "buyToken") =>
    /\ fnCall.made <= 3
    /\ \A i \in 1..Len(fnCall.slept) :
         fnCall.slept[i] = fnCall.slept[1] * TwoToThe(i - 1)
    /\ fnResult = <<>> => Len(fnCall.slept) = fnCall.made
    /\ (fnResult # <<>> /\ fnResult[1].success) =>
         Len(fnCall.slept) = fnCall.made - 1
    /\ (fnResult # <<>> /\ ~fnResult[1].success) =>
         /\ fnCall.made = 3
         /\ Len(fnCall.slept) = 2
         /\ fnResult[1].error = fnCall.lastError
         /\ fnResult[1].error # <<>>

\* C24 witness: the third attempt failed after two waits.
C24_Witness ==
  /\ fnCall # <<>> /\ fnCall.fn = "buyToken"
  /\ fnResult # <<>> /\ ~fnResult[1].success
  /\ fnCall.slept = <<1000, 2000>>

\* C25: the nonce counter is advanced only by a successful broadcast. In
\* every step of executeSwap for an event h: the nonce read at the start
\* stays the one in use; when submitRawTx has returned a hash currentNonce
\* grows by exactly one; when building, signing or broadcasting failed
\* currentNonce keeps its value, unless the error names a nonce conflict.
InExecuteSwap(h) == pc[h] \in {"buildBuy", "buySubmitted", "resyncBuy"}
C25_NonceAdvancedOnSuccess ==
  [][\A h \in Events :
       (InExecuteSwap(h) /\ pc'[h] # pc[h]) =>
         /\ buyNonce'[h] = buyNonce[h]
         /\ pc[h] = "buySubmitted" =>
              (buyOutcome[h] = "accepted" /\ currentNonce' = currentNonce + 1)
         /\ pc[h] = "buildBuy" => currentNonce' = currentNonce
         /\ pc[h] = "resyncBuy" => NeedsResync(CaughtMessage(buyOutcome[h]))]_vars

\* C25 witness: one buy was broadcast and counted, a later one failed
\* without a nonce conflict and left the counter alone.
C25_Witness ==
  \E h, g \in Events :
    /\ buyOutcome[h] = "accepted" /\ pc[h] # "buySubmitted"
    /\ pc[g] = "done_buyfail" /\ buyOutcome[g] = "allFailed"
    /\ currentNonce >= 1

\* C26: profit-target threshold. A tick that fetched a positive price
\* triggers the profit sell if and only if
\* currentPrice * 100 >= entryPrice * 105.
C26_ProfitTargetThreshold ==
  (fnCall # <<>> /\ fnCall.fn = "tick" /\ fnCall.currentPrice > 0) =>
    (fnResult[1].sells <=>
       fnCall.currentPrice * 100 >= fnCall.initialPrice * 105)

\* C27: the reserve oracle's retries are bounded. It makes at most 5 rounds
\* of one read per provider, the WebSocket provider first and the HTTP
\* providers after it in order; a failed read, a timeout or a zero reserve
\* moves on to the next provider or round; and it returns 0 only after all
\* rounds are exhausted.
InOracle == fnCall # <<>> /\ fnCall.fn = "getCurrentPriceFromReservesSafe:loop"
C27_OracleRetriesBounded ==
  InOracle =>
    /\ fnCall.i <= oracleMaxRetries
    /\ fnCall.reads <= oracleMaxRetries * (NumEndpoints + 1)
    /\ \A k \in 1..Len(fnCall.tried) : fnCall.tried[k] = k - 1
    /\ (fnResult = <<>> /\ fnCall.reads > 0) =>
         (fnCall.last.kind \in {"throws", "timeout"}
            \/ fnCall.last.reserve0 = Zero \/ fnCall.last.reserve1 = Zero)
    /\ fnResult = <<Zero>> =>
         (fnCall.i = oracleMaxRetries
            /\ fnCall.reads = oracleMaxRetries * (NumEndpoints + 1))

C29_ExactBalanceApproval ==
  (fnCall # <<>> /\ fnCall.fn = "approveToken") =>
    fnResult = IF BigLt(fnCall.allowance, fnCall.amount)
                 THEN <<fnCall.amount>> ELSE <<>>

\* C30: no nonce gap from the reconciliation timer. Whatever the timer did
\* while a buy was in flight, when the buy's broadcast has succeeded and
\* executeSwap has incremented the counter, currentNonce is the buy's nonce
\* plus one and does not exceed the chain's pending transaction count.
C30_NoNonceGapFromTimer ==
  [][\A h \in Events :
       (pc[h] = "buySubmitted" /\ pc'[h] = "waitReceipt") =>
         /\ currentNonce' = buyNonce[h][1] + 1
         /\ currentNonce' <= chainPending']_vars

\* C31: gate liveness. Every time the gate is acquired it is eventually
\* released (or the process has ended), given that every awaited network
\* call settles and the timers keep firing, whatever prices and liquidity
\* the pool shows after the buy.
C31_GateLiveness ==
  \A h \in Events :
    (isSnipingActive /\ currentTargetToken = Token(h))
      ~> (~isSnipingActive \/ currentTargetToken # Token(h) \/ ~alive)

\* C32: the rug-pull check is active whenever configured. With
\* MIN_LIQUIDITY_BNB > 0 every tick of the monitor that gets past `sold`
\* starts with the liquidity read, also when the initial liquidity read at
\* monitor start failed.
C32_RugPullCheckActive ==
  [][\A h \in Events :
       (minLiquidityOn /\ InFlight(h)' > InFlight(h)) =>
         ticks'[h]["liq"] = ticks[h]["liq"] + 1]_vars

\* C33: zero is only a failure sentinel. When a read of the oracle yields
\* two non-zero reserves, each within the uint112 range, the function
\* returns at that read and the price it returns is not zero.
C33_ZeroIsOnlyFailureSentinel ==
  ( /\ InOracle
    /\ fnCall.last.kind = "reserves"
    /\ fnCall.last.reserve0 # Zero /\ BigLt(fnCall.last.reserve0, Pow2(112))
    /\ fnCall.last.reserve1 # Zero /\ BigLt(fnCall.last.reserve1, Pow2(112)) )
    => (fnResult # <<>> /\ fnResult[1] # Zero)

\* C34: AutoSellManager sells each scheduled position at most once:
\* sellToken is invoked at most once for one pendingSales entry.
C34_SellsEachPositionOnce ==
  \A id \in SaleIds : sellTokenCalls[id] <= 1

\* C35: time-based exit. When a callback checks a sale of the time-based
\* strategy whose time limit has elapsed, it sells it, whether or not a
\* price could be fetched for the token.
C35_TimeBasedExit ==
  [][\A c \in Callbacks :
       ( /\ callbacks[c].stage = "price"
         /\ callbacks[c].sale.type = "time-based"
         /\ callbacks[c].sale.id \in expired
         /\ callbacks'[c] # callbacks[c] )
       => ( /\ callbacks'[c].stage = "sell"
            /\ callbacks'[c].sale = callbacks[c].sale )]_vars

\* C36: the monitoring timer is running if and only if pendingSales is
\* not empty, after any sequence of scheduleSell, cancelSell, finished
\* sells and shutdown.
C36_TimerIffPendingSales ==
  monitoringInterval <=> pendingSales # {}

\* C36 witness: a sell has finished and removed its entry while another
\* sale, scheduled later, is pending with the timer running.
C36_Witness ==
  \E s \in pendingSales :
    /\ monitoringInterval
    /\ \E id \in SaleIds : id < s.id /\ sellTokenCalls[id] > 0
    /\ \A c \in Callbacks : callbacks[c].stage = "idle"

\* C37: SniperBot buys each token at most once: tradeExecutor.buyToken is
\* called at most once per token address, under any interleaving of the
\* handlers of TokenCreated and PairCreated events for the same token.
C37_BuysEachTokenOnce ==
  \A t \in TokenAddresses : buyTokenCalls[t] <= 1

\* C37 witness: for one token a handleNewPair passed its check and was
\* suspended, the token was bought meanwhile, and the delegation then
\* found it in tradedTokens; every event of the behaviour was delivered.
C37_Witness ==
  \E t \in TokenAddresses :
    /\ buyTokenCalls[t] = 1
    /\ delivered = MaxDeliveries
    /\ awaiting[t] = [enrich |-> 0, buy |-> 1]
    /\ \A u \in TokenAddresses :
         u # t => (u \notin tradedTokens /\ awaiting[u].enrich = 0)

\* C38: SniperBot.start leaves no running state on failure: when start()
\* has thrown, isRunning is false.
C38_StartFailureNotRunning ==
  startPc = "threw" => ~isRunning

\* C39: the legacy monitor (src/new.ts) sells at most once: for one
\* position, overlapping ticks that each see the price at or above the
\* target result in a single sell broadcast.
C39_LegacySellsOnce ==
  \A h \in Events : sellBroadcasts[h] <= 1
====
